---------------------------- MODULE Spec2Model ----------------------------
(***************************************************************************)
(* Model of the videographie-app server: the tRPC router (routers.ts), the *)
(* database helpers (db.ts), the schema, and the transcription service.    *)
(*                                                                         *)
(* A request is a process that advances from one `await` to the next; each *)
(* awaited SQL statement is one atomic step on the tables.  Two request    *)
(* slots let handlers interleave at their awaits, as they do on the Node   *)
(* event loop.  Text is a sequence of one-character strings, so that the   *)
(* keyword extractor is computed character by character.                   *)
(*                                                                         *)
(* Failure model: the collaborators (speech-to-text, keyword analysis,     *)
(* object storage) may fail at every call; the project lookups and inserts *)
(* of the resolution and the final update of a transcription may fail;     *)
(* the reads and status writes of the videos table are taken to succeed.   *)
(* In the document handlers the text generator may fail at each of its two *)
(* calls; the statements on the documents table are taken to succeed.      *)
(* Error messages are non-empty texts.  The runs of SpecLive add the       *)
(* failures of the two status writes of a transcription.                   *)
(*                                                                         *)
(* The client is present with the VideoRecorder component of the recording *)
(* page (VideoRecorder.tsx), a state machine of its own (SpecRecorder).    *)
(***************************************************************************)
EXTENDS Integers, Sequences, FiniteSets, TLC

\* ------------------------------------------------------------------ bounds
MaxVideos   == 2      \* video ids handed out by AUTO_INCREMENT
MaxProjects == 2      \* project ids handed out by AUTO_INCREMENT
MaxRequests == 2      \* requests issued in one run of the interleaved pipeline
MaxSeqRequests == 3   \* requests issued in one run, executed one at a time
MaxDocuments == 2     \* document ids a caller names
MaxDocRequests == 2   \* requests issued in one run of the interleaved synthesis
MaxDocSeqRequests == 3 \* requests issued in one run of the sequential synthesis
MaxExtractWords == 4  \* words of a transcript given to the keyword extractor
MaxStatsRequests == 2 \* requests issued in one run with dashboard requests
MaxPairRequests == 2  \* transcriptions issued in one run on two uploaded videos
MaxPairProjects == 3  \* project ids handed out in that run
MaxNoiRequests == 2   \* first accesses to the New Ideas category in one run
MaxResynthRequests == 2 \* document requests issued in one run on a synthesized project
MaxLongRequests == 3  \* ... and in the longer runs
MaxMoveRequests == 2  \* transcriptions and reassignments issued in one run
MaxLiveRequests == 2  \* transcriptions issued in one run whose calls all return
MaxSeconds == 303     \* seconds the clock of the recording page counts

\* <VideoRecorder maxDuration={300} />: seconds after which a recording ends
maxDuration == 300

\* ------------------------------------------------------------------- texts
NewIdeasName == <<"N","o","u","v","e","l","l","e","s"," ","i","d","é","e","s">>
NewIdeasDescription ==
  <<"C","a","t","é","g","o","r","i","e"," ","p","o","u","r"," ","l",
    "e","s"," ","n","o","u","v","e","l","l","e","s"," ","i","d","é",
    "e","s"," ","n","o","n"," ","e","n","c","o","r","e"," ","a","s",
    "s","i","g","n","é","e","s"," ","à"," ","u","n"," ","p","r","o",
    "j","e","t">>
PhoName      == <<"p","h","o">>
NewIdeaKeyword == <<"n","o","u","v","e","l","l","e"," ","i","d","é","e">>
EmptyText    == << >>

\* what the speech-to-text collaborator may return as the transcript
TNewIdea == <<"N","e","w"," ","i","d","e","a",","," ","x">>
TPho     == <<"P","h","o","."," ","x">>
SttTexts == {TNewIdea, TPho, EmptyText}
\* ... and in the runs where requests overlap
OverlapTexts == {TPho, EmptyText}

\* messages of the errors the collaborators and the driver raise
MsgStt       == "speech-to-text failed"
MsgAnalysis  == "keyword analysis failed"
MsgSyntax    == "Unexpected token in JSON"
MsgDb        == "Database query failed"
MsgStorage   == "Storage upload failed"
MsgUndefined == "Cannot read properties of undefined (reading 'id')"
MsgNotConfigured == "Gemini API not configured. Please set GEMINI_API_KEY environment variable."
MsgDefault   == "Transcription failed"
MsgNoContent == "No transcribed videos available for this project"
MsgGenNotConfigured == "Anthropic API not configured. Please set ANTHROPIC_API_KEY environment variable."
MsgGenType   == "Unexpected response type from Claude"
MsgGenApi    == "text generation failed"

\* nullable columns and optional values: << >> is null, <<v>> is the value v
None    == << >>
Some(v) == <<v>>
IsNone(o) == o = << >>
Val(o)  == o[1]

\* project colors: the default of an ordinary project, the one of the
\* new-ideas category, and one a caller may give
DefaultColor  == "#3B82F6"
NewIdeasColor == "#8B5CF6"
CustomColor   == "#10B981"
\* input.color || "#3B82F6"
orDefaultColor(c) == IF IsNone(c) \/ c = Some("") THEN DefaultColor ELSE Val(c)

Users == {1, 2}
role  == [u \in Users |-> IF u = 1 THEN "user" ELSE "admin"]
Slots == {1, 2}

\* -------------------------------------------------- services/transcription
Whitespace == {" ", "\n", "\t"}
Punctuation == {".", ",", "!", "?", ";", ":", "\n"}

toLowerCase(c) ==
  CASE c = "N" -> "n" [] c = "P" -> "p" [] c = "É" -> "é" [] c = "I" -> "i"
    [] OTHER -> c

RECURSIVE trimStart(_)
trimStart(s) ==
  IF s # << >> /\ Head(s) \in Whitespace THEN trimStart(Tail(s)) ELSE s

RECURSIVE trimEnd(_)
trimEnd(s) ==
  IF s # << >> /\ s[Len(s)] \in Whitespace
  THEN trimEnd(SubSeq(s, 1, Len(s) - 1)) ELSE s

trim(s) == trimEnd(trimStart(s))

lower(s) == [i \in 1..Len(s) |-> toLowerCase(s[i])]

startsWith(s, p) == Len(s) >= Len(p) /\ SubSeq(s, 1, Len(p)) = p
\* variant of the cue pattern: only the accented spelling is recognised
matchesIdeeAccented(s, stem, opt) ==
  LET tailOk(t) == LET u == trimStart(t)
                   IN Len(u) >= 4 /\ u[1] = "i" /\ u[2] = "d"
                      /\ u[3] = "é" /\ u[4] = "e"
      afterStem == SubSeq(s, Len(stem) + 1, Len(s))
  IN startsWith(s, stem)
     /\ \/ (afterStem # << >> /\ Head(afterStem) = opt /\ tailOk(Tail(afterStem)))
        \/ tailOk(afterStem)

\* /^<stem><opt>?\s*id[ée]e/ : the stem, the optional letter, any whitespace,
\* then "id", "e" or "é", "e"
matchesIdee(s, stem, opt) ==
  LET tailOk(t) == LET u == trimStart(t)
                   IN Len(u) >= 4 /\ u[1] = "i" /\ u[2] = "d"
                      /\ u[3] \in {"e", "é"} /\ u[4] = "e"
      afterStem == SubSeq(s, Len(stem) + 1, Len(s))
  IN startsWith(s, stem)
     /\ \/ (afterStem # << >> /\ Head(afterStem) = opt /\ tailOk(Tail(afterStem)))
        \/ tailOk(afterStem)

\* /^new\s*idea/
matchesNewIdea(s) ==
  /\ startsWith(s, <<"n","e","w">>)
  /\ startsWith(trimStart(SubSeq(s, 4, Len(s))), <<"i","d","e","a">>)

RECURSIVE beforePunctuation(_)
beforePunctuation(s) ==
  IF s = << >> \/ Head(s) \in Punctuation THEN << >>
  ELSE <<Head(s)>> \o beforePunctuation(Tail(s))

\* s.split(/\s+/) of a trimmed text, as the sequence of its words
RECURSIVE splitWords(_, _)
splitWords(s, word) ==
  IF s = << >> THEN <<word>>
  ELSE IF Head(s) \in Whitespace
       THEN <<word>> \o splitWords(trimStart(s), << >>)
       ELSE splitWords(Tail(s), Append(word, Head(s)))

RECURSIVE joinWords(_)
joinWords(ws) ==
  IF ws = << >> THEN << >>
  ELSE IF Len(ws) = 1 THEN ws[1]
  ELSE ws[1] \o <<" ">> \o joinWords(Tail(ws))

KeywordWords == 3

extractFirstKeyword(transcription) ==
  LET text == lower(trim(transcription))
  IN IF \/ matchesIdee(text, <<"n","o","u","v","e","l","l">>, "e")
        \/ matchesNewIdea(text)
        \/ matchesIdee(text, <<"n","o","u","v","e">>, "l")
     THEN [keyword |-> NewIdeaKeyword, isNewIdea |-> TRUE]
     ELSE LET firstWords == trim(beforePunctuation(text))
              words == splitWords(firstWords, << >>)
              kept == SubSeq(words, 1, IF Len(words) < KeywordWords
                                       THEN Len(words) ELSE KeywordWords)
          IN [keyword |-> joinWords(kept), isNewIdea |-> FALSE]


\* ---------------------------------------------------------------- state
VARIABLES
  projects,       \* the rows of table projects
  videos,         \* the rows of table videos, by id
  nextProjectId,  \* AUTO_INCREMENT of projects.id
  nextVideoId,    \* AUTO_INCREMENT of videos.id
  req,            \* the request each slot is serving, with its locals
  started,        \* number of requests issued so far
  documents,      \* the rows of table documents
  nextDocumentId, \* AUTO_INCREMENT of documents.id
  recorder        \* the VideoRecorder component of the recording page

vars == <<projects, videos, nextProjectId, nextVideoId, req, started,
          documents, nextDocumentId, recorder>>

ProjectNames == {PhoName, NewIdeasName}   \* names a caller or the analysis gives
VideoIds   == 1..MaxVideos
ProjectIds == 1..MaxProjects

\* the recording page is not open
NotMounted == [mounted |-> FALSE]

Idle ==
  [op |-> "idle", pc |-> "idle", user |-> 0, vid |-> 0, pid |-> 0,
   name |-> << >>, flag |-> FALSE, color |-> "", video |-> None, text |-> << >>,
   result |-> None, target |-> 0, outcome |-> "none", msg |-> "",
   resp |-> None, sttCalls |-> 0, anaCalls |-> 0, touched |-> "none",
   did |-> 0, content |-> << >>, title |-> << >>, read |-> << >>,
   existing |-> None, genInput |-> None, generated |-> None, genCalls |-> 0,
   description |-> None, url |-> "",
   projectRows |-> {}, videoRows |-> << >>]

Init ==
  /\ projects = {}
  /\ videos = << >>
  /\ nextProjectId = 1
  /\ nextVideoId = 1
  /\ req = [r \in Slots |-> Idle]
  /\ started = 0
  /\ recorder = NotMounted
  /\ documents = {}
  /\ nextDocumentId = 1

\* ------------------------------------------------------------ db helpers
getVideoById(videoId, userId) ==
  IF videoId \in DOMAIN videos /\ videos[videoId].userId = userId
  THEN Some(videos[videoId]) ELSE None

\* UPDATE videos SET data WHERE id = videoId AND userId = userId
updateVideo(videoId, userId, data) ==
  IF videoId \in DOMAIN videos /\ videos[videoId].userId = userId
  THEN [videos EXCEPT ![videoId] =
          [f \in DOMAIN @ |-> IF f \in DOMAIN data THEN data[f] ELSE @[f]]]
  ELSE videos

deleteVideo(videoId, userId) ==
  IF videoId \in DOMAIN videos /\ videos[videoId].userId = userId
  THEN [v \in (DOMAIN videos) \ {videoId} |-> videos[v]]
  ELSE videos

getProjectById(projectId, userId) ==
  {p \in projects : p.id = projectId /\ p.userId = userId}

getProjectByName(name, userId) ==
  {p \in projects : p.name = name /\ p.userId = userId}

deleteProject(projectId, userId) ==
  {p \in projects : ~(p.id = projectId /\ p.userId = userId)}

\* UPDATE projects SET name WHERE id AND userId
updateProject(projectId, userId, name) ==
  {IF p.id = projectId /\ p.userId = userId THEN [p EXCEPT !.name = name] ELSE p
     : p \in projects}

\* the rows the SELECT of getOrCreateNewIdeasProject may return (LIMIT 1, no order)
selectNewIdeas(userId) ==
  {p \in projects : p.userId = userId /\ p.isNewIdeas}

\* createdAt has a resolution of one second: a row inserted in the same second
\* as the newest row of the same user and name gets the same createdAt
createdAtChoices(userId, name) ==
  LET same == {p.createdAt : p \in getProjectByName(name, userId)}
  IN IF same = {} THEN {0}
     ELSE LET newest == CHOOSE c \in same : \A d \in same : d <= c
          IN {newest, newest + 1}

\* createProject, first statement: INSERT INTO projects
insertProject(userId, name, isNewIdeas, color, description, createdAt) ==
  projects \cup {[id |-> nextProjectId, userId |-> userId, name |-> name,
                  isNewIdeas |-> isNewIdeas, color |-> color,
                  description |-> description, thumbnailUrl |-> None,
                  createdAt |-> createdAt]}

\* createProject, second statement: SELECT ... WHERE userId AND name
\* ORDER BY createdAt DESC LIMIT 1
reselectProject(userId, name) ==
  LET same == getProjectByName(name, userId)
  IN {p \in same : \A q \in same : q.createdAt <= p.createdAt}


\* ------------------------------------------------------ request machinery
Free(r) == req[r].pc \in {"idle", "done"}

InFlight(r) == ~Free(r)

\* a new request takes the lowest free slot
CanStart(r) ==
  /\ Free(r)
  /\ \A q \in Slots : q < r => ~Free(q)

Begin(r, fields) ==
  /\ CanStart(r)
  /\ started' = started + 1
  /\ UNCHANGED recorder
  /\ req' = [req EXCEPT ![r] =
               [f \in DOMAIN Idle |-> IF f \in DOMAIN fields THEN fields[f] ELSE Idle[f]]]
  /\ UNCHANGED <<projects, videos, nextProjectId, nextVideoId,
               documents, nextDocumentId>>

\* the request record once the handler has returned or thrown
\* (its locals are gone; what it was and what the caller received remain)
Finished(q, outcome, msg, resp) ==
  [Idle EXCEPT !.op = q.op, !.pc = "done", !.user = q.user, !.vid = q.vid,
               !.outcome = outcome, !.msg = msg, !.resp = resp]

\* `touched` records, for a transcription in flight, what other requests have
\* written to its video since its own last write: nothing, the project
\* assignment only, or the status (or the row was deleted)
Worse(old, kind) == IF old = "status" \/ kind = "status" THEN "status" ELSE kind

\* ... as it stands after a write of the request itself: its UPDATE matched
\* the row, or the row was already gone (ids are never reused)
OwnWrite(q) == IF IsNone(getVideoById(q.vid, q.user)) THEN "status" ELSE "none"

Watching(q) == q.op = "transcribe" /\ q.pc \notin {"idle", "done", "t_find"}

\* the requests after `actor` has written video v (and moved to record `mine`)
Written(actor, mine, v, kind) ==
  [q \in Slots |->
     IF q = actor THEN mine
     ELSE IF Watching(req[q]) /\ req[q].vid = v
          THEN [req[q] EXCEPT !.touched = Worse(@, kind)]
          ELSE req[q]]

DbKeep == UNCHANGED <<projects, videos, nextProjectId, nextVideoId, started, recorder,
               documents, nextDocumentId>>

\* the values the speech-to-text call may throw: an Error, or another value
Thrown == {[isError |-> TRUE, message |-> MsgStt], [isError |-> FALSE, message |-> ""]}

\* a throw from a step of the request: inside the try block of
\* videos.transcribe it is caught (error instanceof Error ? error.message :
\* "Transcription failed"), elsewhere it fails the request
AfterThrow(q, err) ==
  IF q.op = "transcribe"
  THEN [q EXCEPT !.pc = "t_catch",
                 !.msg = IF err.isError THEN err.message ELSE MsgDefault]
  ELSE Finished(q, "ERROR", err.message, None)

DbError == [isError |-> TRUE, message |-> MsgDb]

\* the caller continues with the project that getOrCreateNewIdeasProject,
\* getProjectByName or createProject returned (None: result[0] is undefined)
AfterProject(q, po) ==
  CASE q.op = "upload" ->
         IF IsNone(po)
         THEN AfterThrow(q, [isError |-> TRUE, message |-> MsgUndefined])
         ELSE [q EXCEPT !.pc = "u_createVideo", !.target = Val(po).id]
    [] q.op = "transcribe" ->
         IF IsNone(po)
         THEN AfterThrow(q, [isError |-> TRUE, message |-> MsgUndefined])
         ELSE [q EXCEPT !.pc = "t_persist", !.target = Val(po).id]
    [] OTHER -> Finished(q, "ok", "", po)
\* variant of getOrCreateNewIdeasProject: a request that finds no category
\* while another request of the same user is creating it fails
NoiSelectGuarded(r) ==
  /\ req[r].pc = "noi_select"
  /\ LET existing == {p \in projects : p.userId = req[r].user /\ p.isNewIdeas}
         creating == \E q \in Slots \ {r} :
                       /\ req[q].user = req[r].user /\ req[q].flag
                       /\ req[q].pc \in {"cp_insert", "cp_reselect"}
     IN \/ /\ existing # {}
           /\ \E p \in existing :
                req' = [req EXCEPT ![r] = AfterProject(@, Some(p))]
        \/ /\ existing = {} /\ ~creating
           /\ req' = [req EXCEPT ![r] = [@ EXCEPT !.pc = "cp_insert",
                                                  !.name = NewIdeasName,
                                                  !.flag = TRUE,
                                                  !.color = NewIdeasColor,
                                                  !.description =
                                                    Some(NewIdeasDescription)]]
        \/ /\ existing = {} /\ creating
           /\ req' = [req EXCEPT ![r] =
                        Finished(@, "CONFLICT", "category is being created", None)]
        \/ req' = [req EXCEPT ![r] = AfterThrow(@, DbError)]
  /\ DbKeep

\* variant of getOrCreateNewIdeasProject: the category is created without
\* looking for an existing one
NoiSelectAlwaysCreate(r) ==
  /\ req[r].pc = "noi_select"
  /\ \/ req' = [req EXCEPT ![r] = [@ EXCEPT !.pc = "cp_insert",
                                            !.name = NewIdeasName,
                                            !.flag = TRUE,
                                            !.color = NewIdeasColor,
                                            !.description =
                                              Some(NewIdeasDescription)]]
     \/ req' = [req EXCEPT ![r] = AfterThrow(@, DbError)]
  /\ DbKeep

\* --------------------------------------- db.getOrCreateNewIdeasProject
NoiSelect(r) ==
  /\ req[r].pc = "noi_select"
  /\ LET existing == selectNewIdeas(req[r].user)
     IN \/ /\ existing # {}
           /\ \E p \in existing :
                req' = [req EXCEPT ![r] = AfterProject(@, Some(p))]
        \/ /\ existing = {}
           /\ req' = [req EXCEPT ![r] = [@ EXCEPT !.pc = "cp_insert",
                                                  !.name = NewIdeasName,
                                                  !.flag = TRUE,
                                                  !.color = NewIdeasColor,
                                                  !.description =
                                                    Some(NewIdeasDescription)]]
        \/ req' = [req EXCEPT ![r] = AfterThrow(@, DbError)]
  /\ DbKeep

\* ------------------------------------------------------- db.createProject
\* (maxId: the last id AUTO_INCREMENT hands out in the run)
CpInsertUpTo(r, maxId) ==
  /\ req[r].pc = "cp_insert"
  /\ \/ /\ nextProjectId <= maxId
        /\ \E c \in createdAtChoices(req[r].user, req[r].name) :
             projects' = insertProject(req[r].user, req[r].name, req[r].flag,
                                       req[r].color, req[r].description, c)
        /\ nextProjectId' = nextProjectId + 1
        /\ req' = [req EXCEPT ![r] = [@ EXCEPT !.pc = "cp_reselect"]]
     \/ /\ req' = [req EXCEPT ![r] = AfterThrow(@, DbError)]
        /\ UNCHANGED <<projects, nextProjectId>>
  /\ UNCHANGED <<videos, nextVideoId, started, recorder,
               documents, nextDocumentId>>

CpInsert(r) == CpInsertUpTo(r, MaxProjects)

CpInsertPair(r) == CpInsertUpTo(r, MaxPairProjects)

CpReselect(r) ==
  /\ req[r].pc = "cp_reselect"
  /\ LET found == reselectProject(req[r].user, req[r].name)
     IN \/ /\ found # {}
           /\ \E p \in found : req' = [req EXCEPT ![r] = AfterProject(@, Some(p))]
        \/ /\ found = {}
           /\ req' = [req EXCEPT ![r] = AfterProject(@, None)]
        \/ req' = [req EXCEPT ![r] = AfterThrow(@, DbError)]
  /\ DbKeep

\* ---------------------------------------------------- projects.getNewIdeas
StartGetNewIdeas(r) ==
  \E u \in Users : Begin(r, [op |-> "getNewIdeas", pc |-> "noi_select", user |-> u])

\* ---------------------------------------------------------- videos.upload
NewVideo(userId, projectId) ==
  [userId |-> userId, projectId |-> projectId, transcription |-> None,
   firstKeyword |-> None, status |-> "uploaded", errorMessage |-> None]

StartUpload(r) ==
  /\ nextVideoId <= MaxVideos
  /\ \E u \in Users : Begin(r, [op |-> "upload", pc |-> "u_storagePut", user |-> u])

UploadStoragePut(r) ==
  /\ req[r].pc = "u_storagePut"
  /\ \/ req' = [req EXCEPT ![r] = [@ EXCEPT !.pc = "noi_select"]]
     \/ req' = [req EXCEPT ![r] =
                  AfterThrow(@, [isError |-> TRUE, message |-> MsgStorage])]
  /\ DbKeep

\* db.createVideo: the INSERT, and the row read back by its videoKey
UploadCreateVideo(r) ==
  /\ req[r].pc = "u_createVideo"
  /\ nextVideoId <= MaxVideos
  /\ LET row == NewVideo(req[r].user, req[r].target)
     IN /\ videos' = [v \in (DOMAIN videos) \cup {nextVideoId} |->
                        IF v = nextVideoId THEN row ELSE videos[v]]
        /\ req' = [req EXCEPT ![r] =
                     Finished([@ EXCEPT !.vid = nextVideoId], "ok", "", Some(row))]
  /\ nextVideoId' = nextVideoId + 1
  /\ UNCHANGED <<projects, nextProjectId, started, recorder,
               documents, nextDocumentId>>

\* ------------------------------------------------------ videos.transcribe
StartTranscribe(r) ==
  \E u \in Users, v \in VideoIds :
    Begin(r, [op |-> "transcribe", pc |-> "t_find", user |-> u, vid |-> v])

\* const video = await db.getVideoById(...); if (!video) throw NOT_FOUND
TranscribeFind(r) ==
  /\ req[r].pc = "t_find"
  /\ LET video == getVideoById(req[r].vid, req[r].user)
     IN req' = [req EXCEPT ![r] =
                  IF IsNone(video)
                  THEN Finished(@, "NOT_FOUND", "Video not found", None)
                  ELSE [@ EXCEPT !.pc = "t_setTranscribing", !.video = video]]
  /\ DbKeep
\* variant of the first write: the handler goes on to the classifier
\* without having stored the status
TranscribeSetStatusSkipped(r) ==
  /\ req[r].pc = "t_setTranscribing"
  /\ req' = [req EXCEPT ![r] = [@ EXCEPT !.pc = "t_classify", !.touched = "none"]]
  /\ DbKeep

\* await db.updateVideo(id, userId, { status: "transcribing" })
TranscribeSetStatus(r) ==
  /\ req[r].pc = "t_setTranscribing"
  /\ videos' = updateVideo(req[r].vid, req[r].user, [status |-> "transcribing"])
  /\ req' = Written(r, [req[r] EXCEPT !.pc = "t_classify", !.touched = OwnWrite(req[r])],
                    req[r].vid, "status")
  /\ UNCHANGED <<projects, nextProjectId, nextVideoId, started, recorder,
               documents, nextDocumentId>>

\* transcribeWithGemini is entered: without an API key it throws at once,
\* otherwise the speech-to-text call is issued
TranscribeClassify(r) ==
  /\ req[r].pc = "t_classify"
  /\ \/ req' = [req EXCEPT ![r] = [@ EXCEPT !.pc = "t_stt", !.sttCalls = @ + 1]]
     \/ req' = [req EXCEPT ![r] =
                  AfterThrow(@, [isError |-> TRUE, message |-> MsgNotConfigured])]
  /\ DbKeep
\* variant of the speech-to-text step: a failed call is issued once more
TranscribeSttRetrying(r, texts) ==
  /\ req[r].pc = "t_stt"
  /\ \/ \E t \in texts :
          req' = [req EXCEPT ![r] = [@ EXCEPT !.pc = "t_analysis", !.text = t,
                                              !.anaCalls = @ + 1]]
     \/ /\ req[r].sttCalls < 2
        /\ req' = [req EXCEPT ![r] = [@ EXCEPT !.sttCalls = @ + 1]]
     \/ /\ req[r].sttCalls >= 2
        /\ \E e \in Thrown : req' = [req EXCEPT ![r] = AfterThrow(@, e)]
  /\ DbKeep

\* the speech-to-text call returns {text}, returns {error}, or throws; on a
\* text the keyword-analysis call is issued
TranscribeSttFrom(r, texts) ==
  /\ req[r].pc = "t_stt"
  /\ \/ \E t \in texts :
          req' = [req EXCEPT ![r] = [@ EXCEPT !.pc = "t_analysis", !.text = t,
                                              !.anaCalls = @ + 1]]
     \/ \E e \in Thrown : req' = [req EXCEPT ![r] = AfterThrow(@, e)]
  /\ DbKeep

TranscribeStt(r) == TranscribeSttFrom(r, SttTexts)

TranscribeSttOverlap(r) == TranscribeSttFrom(r, OverlapTexts)

\* the JSON objects the analysis may answer with (a field may be missing,
\* isNewIdea may be another value than a boolean)
ParsedAnswers ==
  { [firstKeyword |-> Some(PhoName), isNewIdea |-> "false",
     suggestedProjectName |-> Some(PhoName)],
    [firstKeyword |-> Some(NewIdeaKeyword), isNewIdea |-> "true",
     suggestedProjectName |-> None],
    [firstKeyword |-> None, isNewIdea |-> "true",
     suggestedProjectName |-> Some(PhoName)],
    [firstKeyword |-> None, isNewIdea |-> "absent",
     suggestedProjectName |-> Some(EmptyText)],
    [firstKeyword |-> None, isNewIdea |-> "text",
     suggestedProjectName |-> None] }

\* firstKeyword: parsed.firstKeyword || "", isNewIdea: parsed.isNewIdea === true,
\* suggestedProjectName: parsed.suggestedProjectName || null
parsedResult(text, parsed) ==
  [text |-> text,
   firstKeyword |-> IF IsNone(parsed.firstKeyword) THEN EmptyText
                    ELSE Val(parsed.firstKeyword),
   isNewIdea |-> (parsed.isNewIdea = "true"),
   suggestedProjectName |->
     IF IsNone(parsed.suggestedProjectName)
        \/ parsed.suggestedProjectName = Some(EmptyText)
     THEN None ELSE parsed.suggestedProjectName]

\* no brace-delimited substring in the answer: the manual extraction
fallbackResult(text) ==
  LET extracted == extractFirstKeyword(text)
  IN [text |-> text,
      firstKeyword |-> extracted.keyword,
      isNewIdea |-> extracted.isNewIdea,
      suggestedProjectName |-> IF extracted.isNewIdea THEN None
                               ELSE Some(extracted.keyword)]

\* variants of the choice of the target project: the suggested name is
\* looked at before the new-idea flag; a classification without a name falls
\* back to the new-ideas category
ResolveNameFirst(q, result) ==
  IF ~IsNone(result.suggestedProjectName)
     /\ Val(result.suggestedProjectName) # EmptyText
  THEN [q EXCEPT !.result = Some(result), !.pc = "t_getByName",
                 !.name = Val(result.suggestedProjectName)]
  ELSE IF result.isNewIdea
       THEN [q EXCEPT !.result = Some(result), !.pc = "noi_select"]
       ELSE [q EXCEPT !.result = Some(result), !.pc = "t_persist",
                      !.target = Val(q.video).projectId]

ResolveUnnamedAsNewIdea(q, result) ==
  IF result.isNewIdea
     \/ IsNone(result.suggestedProjectName)
     \/ Val(result.suggestedProjectName) = EmptyText
  THEN [q EXCEPT !.result = Some(result), !.pc = "noi_select"]
  ELSE [q EXCEPT !.result = Some(result), !.pc = "t_getByName",
                 !.name = Val(result.suggestedProjectName)]

\* routers.ts 196-214: where the handler goes with the classification
Resolve(q, result) ==
  IF result.isNewIdea
  THEN [q EXCEPT !.result = Some(result), !.pc = "noi_select"]
  ELSE IF ~IsNone(result.suggestedProjectName)
          /\ Val(result.suggestedProjectName) # EmptyText
       THEN [q EXCEPT !.result = Some(result), !.pc = "t_getByName",
                      !.name = Val(result.suggestedProjectName)]
       ELSE [q EXCEPT !.result = Some(result), !.pc = "t_persist",
                      !.target = Val(q.video).projectId]

\* the analysis call returns a text with a JSON object, with braces around
\* malformed JSON, or without braces, or it throws
TranscribeAnalysis(r) ==
  /\ req[r].pc = "t_analysis"
  /\ \/ \E a \in ParsedAnswers :
          req' = [req EXCEPT ![r] = Resolve(@, parsedResult(req[r].text, a))]
     \/ req' = [req EXCEPT ![r] = Resolve(@, fallbackResult(req[r].text))]
     \/ req' = [req EXCEPT ![r] =
                  AfterThrow(@, [isError |-> TRUE, message |-> MsgSyntax])]
     \/ req' = [req EXCEPT ![r] =
                  AfterThrow(@, [isError |-> TRUE, message |-> MsgAnalysis])]
  /\ DbKeep
\* variant of the named-project branch: the project is created without
\* looking for an existing one
TranscribeGetByNameAlwaysCreate(r) ==
  /\ req[r].pc = "t_getByName"
  /\ \/ req' = [req EXCEPT ![r] = [@ EXCEPT !.pc = "cp_insert", !.flag = FALSE,
                                            !.color = DefaultColor]]
     \/ req' = [req EXCEPT ![r] = AfterThrow(@, DbError)]
  /\ DbKeep

\* let project = await db.getProjectByName(result.suggestedProjectName, userId)
TranscribeGetByName(r) ==
  /\ req[r].pc = "t_getByName"
  /\ LET found == getProjectByName(req[r].name, req[r].user)
     IN \/ /\ found # {}
           /\ \E p \in found : req' = [req EXCEPT ![r] = AfterProject(@, Some(p))]
        \/ /\ found = {}
           /\ req' = [req EXCEPT ![r] = [@ EXCEPT !.pc = "cp_insert", !.flag = FALSE,
                                                  !.color = DefaultColor]]
        \/ req' = [req EXCEPT ![r] = AfterThrow(@, DbError)]
  /\ DbKeep
\* variant of the final update: transcript, keyword and project are stored,
\* the status is left for a later write
TranscribePersistContentOnly(r) ==
  /\ req[r].pc = "t_persist"
  /\ videos' = updateVideo(req[r].vid, req[r].user,
                 [transcription |-> Some(Val(req[r].result).text),
                  firstKeyword |-> Some(Val(req[r].result).firstKeyword),
                  projectId |-> req[r].target])
  /\ req' = Written(r, [req[r] EXCEPT !.pc = "t_readback",
                                       !.touched = OwnWrite(req[r])],
                    req[r].vid, "status")
  /\ UNCHANGED <<projects, nextProjectId, nextVideoId, started, recorder,
               documents, nextDocumentId>>

\* await db.updateVideo(id, userId, {transcription, firstKeyword, projectId,
\* status: "transcribed"}): the UPDATE
TranscribePersist(r) ==
  /\ req[r].pc = "t_persist"
  /\ \/ /\ videos' = updateVideo(req[r].vid, req[r].user,
                       [transcription |-> Some(Val(req[r].result).text),
                        firstKeyword |-> Some(Val(req[r].result).firstKeyword),
                        projectId |-> req[r].target,
                        status |-> "transcribed"])
        /\ req' = Written(r, [req[r] EXCEPT !.pc = "t_readback",
                                             !.touched = OwnWrite(req[r])],
                          req[r].vid, "status")
     \/ /\ req' = [req EXCEPT ![r] = AfterThrow(@, DbError)]
        /\ UNCHANGED videos
  /\ UNCHANGED <<projects, nextProjectId, nextVideoId, started, recorder,
               documents, nextDocumentId>>
\* variant of the return value: the row as the handler read it at its start
TranscribeReadBackStale(r) ==
  /\ req[r].pc = "t_readback"
  /\ req' = [req EXCEPT ![r] = Finished(@, "ok", "", req[r].video)]
  /\ DbKeep

\* ... and the row updateVideo reads back, which the handler returns
TranscribeReadBack(r) ==
  /\ req[r].pc = "t_readback"
  /\ req' = [req EXCEPT ![r] =
               Finished(@, "ok", "", getVideoById(req[r].vid, req[r].user))]
  /\ DbKeep
\* variants of the catch block: one stores the default message instead of
\* the caught one, one also clears the transcript
TranscribeFailDefaultMessage(r) ==
  /\ req[r].pc = "t_catch"
  /\ videos' = updateVideo(req[r].vid, req[r].user,
                 [status |-> "error", errorMessage |-> Some(MsgDefault)])
  /\ req' = Written(r, Finished(req[r], "INTERNAL_SERVER_ERROR", req[r].msg, None),
                    req[r].vid, "status")
  /\ UNCHANGED <<projects, nextProjectId, nextVideoId, started, recorder,
               documents, nextDocumentId>>

TranscribeFailClearing(r) ==
  /\ req[r].pc = "t_catch"
  /\ videos' = updateVideo(req[r].vid, req[r].user,
                 [status |-> "error", errorMessage |-> Some(req[r].msg),
                  transcription |-> None])
  /\ req' = Written(r, Finished(req[r], "INTERNAL_SERVER_ERROR", req[r].msg, None),
                    req[r].vid, "status")
  /\ UNCHANGED <<projects, nextProjectId, nextVideoId, started, recorder,
               documents, nextDocumentId>>

\* catch (error): status "error" and the message are stored, and the handler
\* throws INTERNAL_SERVER_ERROR with the same message
TranscribeFail(r) ==
  /\ req[r].pc = "t_catch"
  /\ videos' = updateVideo(req[r].vid, req[r].user,
                 [status |-> "error", errorMessage |-> Some(req[r].msg)])
  /\ req' = Written(r, Finished(req[r], "INTERNAL_SERVER_ERROR", req[r].msg, None),
                    req[r].vid, "status")
  /\ UNCHANGED <<projects, nextProjectId, nextVideoId, started, recorder,
               documents, nextDocumentId>>


\* -------------------------------------------------------- videos.reassign
StartReassign(r) ==
  \E u \in Users, v \in VideoIds, p \in ProjectIds :
    Begin(r, [op |-> "reassign", pc |-> "r_findVideo", user |-> u,
              vid |-> v, pid |-> p])

ReassignFindVideo(r) ==
  /\ req[r].pc = "r_findVideo"
  /\ req' = [req EXCEPT ![r] =
               IF IsNone(getVideoById(req[r].vid, req[r].user))
               THEN Finished(@, "NOT_FOUND", "Video not found", None)
               ELSE [@ EXCEPT !.pc = "r_findProject"]]
  /\ DbKeep

ReassignFindProject(r) ==
  /\ req[r].pc = "r_findProject"
  /\ req' = [req EXCEPT ![r] =
               IF getProjectById(req[r].pid, req[r].user) = {}
               THEN Finished(@, "NOT_FOUND", "Project not found", None)
               ELSE [@ EXCEPT !.pc = "r_update"]]
  /\ DbKeep
\* variant of the reassignment: the moved video is also reset to uploaded
ReassignUpdateResetting(r) ==
  /\ req[r].pc = "r_update"
  /\ videos' = updateVideo(req[r].vid, req[r].user,
                 [projectId |-> req[r].pid, status |-> "uploaded"])
  /\ req' = Written(r, Finished(req[r], "ok", "", None), req[r].vid, "status")
  /\ UNCHANGED <<projects, nextProjectId, nextVideoId, started, recorder,
               documents, nextDocumentId>>

\* return db.updateVideo(id, userId, { projectId })
ReassignUpdate(r) ==
  /\ req[r].pc = "r_update"
  /\ videos' = updateVideo(req[r].vid, req[r].user, [projectId |-> req[r].pid])
  /\ req' = Written(r, Finished(req[r], "ok", "", None), req[r].vid, "assign")
  /\ UNCHANGED <<projects, nextProjectId, nextVideoId, started, recorder,
               documents, nextDocumentId>>

\* ---------------------------------------------------------- videos.delete
StartDeleteVideo(r) ==
  \E u \in Users, v \in VideoIds :
    Begin(r, [op |-> "deleteVideo", pc |-> "d_find", user |-> u, vid |-> v])

DeleteVideoFind(r) ==
  /\ req[r].pc = "d_find"
  /\ req' = [req EXCEPT ![r] =
               IF IsNone(getVideoById(req[r].vid, req[r].user))
               THEN Finished(@, "NOT_FOUND", "Video not found", None)
               ELSE [@ EXCEPT !.pc = "d_delete"]]
  /\ DbKeep

DeleteVideoDelete(r) ==
  /\ req[r].pc = "d_delete"
  /\ videos' = deleteVideo(req[r].vid, req[r].user)
  /\ req' = Written(r, Finished(req[r], "ok", "", None), req[r].vid, "status")
  /\ UNCHANGED <<projects, nextProjectId, nextVideoId, started, recorder,
               documents, nextDocumentId>>

\* -------------------------------------------------------- projects.delete
StartDeleteProject(r) ==
  \E u \in Users, p \in ProjectIds :
    Begin(r, [op |-> "deleteProject", pc |-> "p_find", user |-> u, pid |-> p])
\* variant of projects.delete: an admin may delete the new-ideas category
DeleteProjectFindAdminBypass(r) ==
  /\ req[r].pc = "p_find"
  /\ LET project == getProjectById(req[r].pid, req[r].user)
     IN req' = [req EXCEPT ![r] =
                  IF project = {}
                  THEN Finished(@, "NOT_FOUND", "Project not found", None)
                  ELSE IF (\E p \in project : p.isNewIdeas)
                          /\ role[req[r].user] # "admin"
                  THEN Finished(@, "FORBIDDEN",
                                "Cannot delete the 'New Ideas' category", None)
                  ELSE [@ EXCEPT !.pc = "p_delete"]]
  /\ DbKeep

\* NOT_FOUND when the caller has no such project, FORBIDDEN when it is the
\* new-ideas category; the caller's role is not consulted
DeleteProjectFind(r) ==
  /\ req[r].pc = "p_find"
  /\ LET project == getProjectById(req[r].pid, req[r].user)
     IN req' = [req EXCEPT ![r] =
                  IF project = {}
                  THEN Finished(@, "NOT_FOUND", "Project not found", None)
                  ELSE IF \E p \in project : p.isNewIdeas
                  THEN Finished(@, "FORBIDDEN",
                                "Cannot delete the 'New Ideas' category", None)
                  ELSE [@ EXCEPT !.pc = "p_delete"]]
  /\ DbKeep

DeleteProjectDelete(r) ==
  /\ req[r].pc = "p_delete"
  /\ projects' = deleteProject(req[r].pid, req[r].user)
  /\ req' = [req EXCEPT ![r] = Finished(@, "ok", "", None)]
  /\ UNCHANGED <<videos, nextProjectId, nextVideoId, started, recorder,
               documents, nextDocumentId>>

\* -------------------------------------------------------- projects.create
StartCreateProject(r) ==
  \E u \in Users, n \in ProjectNames, c \in {None, Some(CustomColor)} :
    Begin(r, [op |-> "createProject", pc |-> "c_getByName", user |-> u,
              name |-> n, color |-> orDefaultColor(c)])
\* variant of projects.create: the name is looked up among the projects of
\* every user
CreateProjectCheckAnyOwner(r) ==
  /\ req[r].pc = "c_getByName"
  /\ req' = [req EXCEPT ![r] =
               IF \E p \in projects : p.name = req[r].name
               THEN Finished(@, "CONFLICT",
                             "A project with this name already exists", None)
               ELSE [@ EXCEPT !.pc = "cp_insert", !.flag = FALSE]]
  /\ DbKeep

CreateProjectCheck(r) ==
  /\ req[r].pc = "c_getByName"
  /\ req' = [req EXCEPT ![r] =
               IF getProjectByName(req[r].name, req[r].user) # {}
               THEN Finished(@, "CONFLICT",
                             "A project with this name already exists", None)
               ELSE [@ EXCEPT !.pc = "cp_insert", !.flag = FALSE]]
  /\ DbKeep

\* -------------------------------------------------------- projects.update
StartUpdateProject(r) ==
  \E u \in Users, p \in ProjectIds, n \in ProjectNames :
    Begin(r, [op |-> "updateProject", pc |-> "up_update", user |-> u,
              pid |-> p, name |-> n])

\* db.updateProject: the UPDATE of name, then getProjectById; the input
\* schema has no isNewIdeas field
UpdateProjectUpdate(r) ==
  /\ req[r].pc = "up_update"
  /\ projects' = updateProject(req[r].pid, req[r].user, req[r].name)
  /\ req' = [req EXCEPT ![r] =
               IF getProjectById(req[r].pid, req[r].user) = {}
               THEN Finished(@, "NOT_FOUND", "Project not found", None)
               ELSE Finished(@, "ok", "", None)]
  /\ UNCHANGED <<videos, nextProjectId, nextVideoId, started, recorder,
               documents, nextDocumentId>>
\* ============================================================= documents
\* markdown the generator may return: with a first-level heading, without
DocTitled == <<"#", " ", "T", "\n", "x">>
DocPlain  == <<"x">>
GenContents == {DocTitled, DocPlain}
\* the summary: the text of the second answer, or "" when its first block is
\* not a text block
SummaryText == <<"s">>
Summaries == {SummaryText, EmptyText}
\* contents a caller sends to documents.update (z.string(): may be empty)
EditedContent == <<"e">>
UpdateContents == {EditedContent, EmptyText}
DefaultTitlePrefix ==
  <<"D","o","c","u","m","e","n","t"," ","d","e"," ","p","r","é","s","e","n",
    "t","a","t","i","o","n"," ","-"," ">>

DocumentIds == 1..MaxDocuments

\* documentContent.match(/^#\s+(.+)$/m): the first line start followed by
\* "#", the longest run of white space after it that still leaves a character
\* of the same line, and the rest of that line
LineTerminators == {"\n", "\r"}

titleMatch(s) ==
  LET gaps(i) == {k \in (i + 1)..(Len(s) - 1) :
                    /\ \A j \in (i + 1)..k : s[j] \in Whitespace \cup {"\r"}
                    /\ s[k + 1] \notin LineTerminators}
      starts == {i \in 1..Len(s) :
                    /\ i = 1 \/ s[i - 1] \in LineTerminators
                    /\ s[i] = "#"
                    /\ gaps(i) # {}}
  IN IF starts = {} THEN None
     ELSE LET i == CHOOSE a \in starts : \A b \in starts : a <= b
              k == CHOOSE a \in gaps(i) : \A b \in gaps(i) : b <= a
              ends == {e \in (k + 1)..Len(s) :
                         \A j \in (k + 1)..e : s[j] \notin LineTerminators}
              e == CHOOSE a \in ends : \A b \in ends : b <= a
          IN Some(SubSeq(s, k + 1, e))

\* titleMatch ? titleMatch[1] : `Document de présentation - ${projectName}`
titleOf(documentContent, projectName) ==
  IF IsNone(titleMatch(documentContent))
  THEN DefaultTitlePrefix \o projectName
  ELSE Val(titleMatch(documentContent))

\* getVideosByProjectId(...).filter(v => v.status === "transcribed" &&
\* v.transcription): the ids, and their transcripts newest first
transcribedVideos(projectId, userId) ==
  {v \in DOMAIN videos :
     /\ videos[v].projectId = projectId /\ videos[v].userId = userId
     /\ videos[v].status = "transcribed"
     /\ ~IsNone(videos[v].transcription)
     /\ Val(videos[v].transcription) # EmptyText}

transcriptions(projectId, userId) ==
  LET ids == transcribedVideos(projectId, userId)
      nth(i) == CHOOSE v \in ids : Cardinality({w \in ids : w > v}) = i - 1
  IN [i \in 1..Cardinality(ids) |-> Val(videos[nth(i)].transcription)]

\* the rows the SELECT of getDocumentByProjectId may return
\* (ORDER BY version DESC LIMIT 1)
getDocumentByProjectId(projectId, userId) ==
  LET same == {d \in documents : d.projectId = projectId /\ d.userId = userId}
  IN {d \in same : \A e \in same : e.version <= d.version}

\* createDocument, second statement: SELECT ... WHERE projectId AND userId
\* ORDER BY createdAt DESC LIMIT 1
reselectDocument(projectId, userId) ==
  LET same == {d \in documents : d.projectId = projectId /\ d.userId = userId}
  IN {d \in same : \A e \in same : e.createdAt <= d.createdAt}

\* createdAt has a resolution of one second
documentCreatedAtChoices(projectId, userId) ==
  LET same == {d.createdAt : d \in {e \in documents : /\ e.projectId = projectId
                                                     /\ e.userId = userId}}
  IN IF same = {} THEN {0}
     ELSE LET newest == CHOOSE c \in same : \A d \in same : d <= c
          IN {newest, newest + 1}

\* UPDATE documents SET data WHERE id = documentId AND userId = userId
updateDocument(documentId, userId, data) ==
  {IF d.id = documentId /\ d.userId = userId
   THEN [f \in DOMAIN d |-> IF f \in DOMAIN data THEN data[f] ELSE d[f]]
   ELSE d : d \in documents}

\* updateDocument, second statement: SELECT ... WHERE id = documentId LIMIT 1
readBackDocument(documentId) == {d \in documents : d.id = documentId}

deleteDocument(documentId, userId) ==
  {d \in documents : ~(d.id = documentId /\ d.userId = userId)}

\* the record of a finished document request: what it was about remains
FinishedDoc(q, outcome, msg, resp) ==
  [Finished(q, outcome, msg, resp) EXCEPT !.pid = q.pid, !.did = q.did,
                                          !.genCalls = q.genCalls]

VideosKeep == UNCHANGED <<projects, videos, nextProjectId, nextVideoId, started, recorder>>

\* ------------------------------------------------------ documents.generate
StartGenerate(r) ==
  \E u \in Users, p \in ProjectIds :
    Begin(r, [op |-> "generate", pc |-> "g_project", user |-> u, pid |-> p])

\* const project = await db.getProjectById(...); if (!project) throw NOT_FOUND
GenerateFindProject(r) ==
  /\ req[r].pc = "g_project"
  /\ req' = [req EXCEPT ![r] =
               LET found == getProjectById(req[r].pid, req[r].user)
               IN IF found = {}
                  THEN FinishedDoc(@, "NOT_FOUND", "Project not found", None)
                  ELSE [@ EXCEPT !.pc = "g_videos",
                                 !.name = (CHOOSE p \in found : TRUE).name]]
  /\ DbKeep

\* variant of the gathering: an empty list of transcripts goes on to the
\* generator
GenerateVideosUnchecked(r) ==
  /\ req[r].pc = "g_videos"
  /\ req' = [req EXCEPT ![r] =
               [@ EXCEPT !.pc = "g_existing",
                         !.read = transcriptions(req[r].pid, req[r].user)]]
  /\ DbKeep

\* the videos of the project, filtered; BAD_REQUEST when none is left
GenerateVideos(r) ==
  /\ req[r].pc = "g_videos"
  /\ req' = [req EXCEPT ![r] =
               LET read == transcriptions(req[r].pid, req[r].user)
               IN IF Len(read) = 0
                  THEN FinishedDoc(@, "BAD_REQUEST", MsgNoContent, None)
                  ELSE [@ EXCEPT !.pc = "g_existing", !.read = read]]
  /\ DbKeep

\* const existingDoc = await db.getDocumentByProjectId(...)
GenerateExisting(r) ==
  /\ req[r].pc = "g_existing"
  /\ LET found == getDocumentByProjectId(req[r].pid, req[r].user)
     IN IF found = {}
        THEN req' = [req EXCEPT ![r] = [@ EXCEPT !.pc = "g_content",
                                                 !.existing = None]]
        ELSE \E d \in found :
               req' = [req EXCEPT ![r] = [@ EXCEPT !.pc = "g_content",
                                                   !.existing = Some(d)]]
  /\ DbKeep

\* what generateProjectDocument is called with
generationInput(q) ==
  [projectName |-> q.name,
   existingContent |-> IF IsNone(q.existing) THEN None
                       ELSE Some(Val(q.existing).content),
   newTranscriptions |-> q.read,
   videosCount |-> Len(q.read)]

\* const isUpdate = !!input.existingContent
isUpdate(input) ==
  ~IsNone(input.existingContent) /\ Val(input.existingContent) # EmptyText

\* generateProjectDocument up to its second await: the client is missing, or
\* the first call throws, or answers with a block that is not text, or
\* answers with the markdown of the document
GenerateContent(r) ==
  /\ req[r].pc = "g_content"
  /\ \/ req' = [req EXCEPT ![r] = FinishedDoc(@, "ERROR", MsgGenNotConfigured, None)]
     \/ \E m \in {MsgGenApi, MsgGenType} :
          req' = [req EXCEPT ![r] =
                    FinishedDoc([@ EXCEPT !.genCalls = @ + 1], "ERROR", m, None)]
     \/ \E c \in GenContents :
          req' = [req EXCEPT ![r] =
                    [@ EXCEPT !.pc = "g_summary", !.genCalls = @ + 1,
                              !.genInput = Some(generationInput(req[r])),
                              !.content = c,
                              !.title = titleOf(c, req[r].name)]]
  /\ DbKeep
\* variant of the second call: when it throws, the content already generated
\* is saved to the existing document before the request fails
GenerateSummaryPartial(r) ==
  /\ req[r].pc = "g_summary"
  /\ \/ /\ req' = [req EXCEPT ![r] =
                     FinishedDoc([@ EXCEPT !.genCalls = @ + 1], "ERROR", MsgGenApi, None)]
        /\ documents' =
             IF IsNone(req[r].existing) THEN documents
             ELSE updateDocument(Val(req[r].existing).id, req[r].user,
                    [content |-> req[r].content,
                     version |-> Val(req[r].existing).version + 1])
     \/ /\ \E s \in Summaries :
             req' = [req EXCEPT ![r] =
                       [@ EXCEPT !.pc = IF IsNone(req[r].existing) THEN "cd_insert"
                                        ELSE "g_update",
                                 !.genCalls = @ + 1,
                                 !.generated = Some([title |-> req[r].title,
                                                     content |-> req[r].content,
                                                     summary |-> s])]]
        /\ UNCHANGED documents
  /\ UNCHANGED nextDocumentId
  /\ VideosKeep

\* the second call: it throws, or answers with the summary
GenerateSummary(r) ==
  /\ req[r].pc = "g_summary"
  /\ \/ req' = [req EXCEPT ![r] =
                  FinishedDoc([@ EXCEPT !.genCalls = @ + 1], "ERROR", MsgGenApi, None)]
     \/ \E s \in Summaries :
          req' = [req EXCEPT ![r] =
                    [@ EXCEPT !.pc = IF IsNone(req[r].existing) THEN "cd_insert"
                                     ELSE "g_update",
                              !.genCalls = @ + 1,
                              !.generated = Some([title |-> req[r].title,
                                                  content |-> req[r].content,
                                                  summary |-> s])]]
  /\ DbKeep

\* variants of the update of the existing document: the version is left as
\* it is; the count of videos is added to the previous one
GenerateUpdateSameVersion(r) ==
  /\ req[r].pc = "g_update"
  /\ documents' = updateDocument(Val(req[r].existing).id, req[r].user,
                    [title |-> Val(req[r].generated).title,
                     content |-> Val(req[r].generated).content,
                     versionNotes |-> Val(req[r].generated).summary,
                     videosIncorporated |-> Len(req[r].read)])
  /\ req' = [req EXCEPT ![r] = [@ EXCEPT !.pc = "ud_readback",
                                         !.did = Val(req[r].existing).id]]
  /\ UNCHANGED nextDocumentId
  /\ VideosKeep

GenerateUpdateRunningCount(r) ==
  /\ req[r].pc = "g_update"
  /\ documents' = updateDocument(Val(req[r].existing).id, req[r].user,
                    [title |-> Val(req[r].generated).title,
                     content |-> Val(req[r].generated).content,
                     version |-> Val(req[r].existing).version + 1,
                     versionNotes |-> Val(req[r].generated).summary,
                     videosIncorporated |->
                       Val(req[r].existing).videosIncorporated + Len(req[r].read)])
  /\ req' = [req EXCEPT ![r] = [@ EXCEPT !.pc = "ud_readback",
                                         !.did = Val(req[r].existing).id]]
  /\ UNCHANGED nextDocumentId
  /\ VideosKeep

\* variant of the update: the version is counted from the stored row
\* (SET version = version + 1)
GenerateUpdateIncrementing(r) ==
  /\ req[r].pc = "g_update"
  /\ documents' =
       {IF d.id = Val(req[r].existing).id /\ d.userId = req[r].user
        THEN [d EXCEPT !.title = Val(req[r].generated).title,
                       !.content = Val(req[r].generated).content,
                       !.version = @ + 1,
                       !.versionNotes = Val(req[r].generated).summary,
                       !.videosIncorporated = Len(req[r].read)]
        ELSE d : d \in documents}
  /\ req' = [req EXCEPT ![r] = [@ EXCEPT !.pc = "ud_readback",
                                         !.did = Val(req[r].existing).id]]
  /\ UNCHANGED nextDocumentId
  /\ VideosKeep

\* db.updateDocument(existingDoc.id, userId, {title, content,
\* version: existingDoc.version + 1, versionNotes, videosIncorporated}),
\* first statement
GenerateUpdate(r) ==
  /\ req[r].pc = "g_update"
  /\ documents' = updateDocument(Val(req[r].existing).id, req[r].user,
                    [title |-> Val(req[r].generated).title,
                     content |-> Val(req[r].generated).content,
                     version |-> Val(req[r].existing).version + 1,
                     versionNotes |-> Val(req[r].generated).summary,
                     videosIncorporated |-> Len(req[r].read)])
  /\ req' = [req EXCEPT ![r] = [@ EXCEPT !.pc = "ud_readback",
                                         !.did = Val(req[r].existing).id]]
  /\ UNCHANGED nextDocumentId
  /\ VideosKeep

\* db.createDocument({projectId, userId, title, content, versionNotes,
\* videosIncorporated}), first statement: the version is the column default
CdInsert(r) ==
  /\ req[r].pc = "cd_insert"
  /\ \E c \in documentCreatedAtChoices(req[r].pid, req[r].user) :
       documents' = documents \cup
         {[id |-> nextDocumentId, projectId |-> req[r].pid, userId |-> req[r].user,
           title |-> Val(req[r].generated).title,
           content |-> Val(req[r].generated).content,
           version |-> 1,
           versionNotes |-> Val(req[r].generated).summary,
           videosIncorporated |-> Len(req[r].read),
           createdAt |-> c]}
  /\ nextDocumentId' = nextDocumentId + 1
  /\ req' = [req EXCEPT ![r] = [@ EXCEPT !.pc = "cd_reselect"]]
  /\ VideosKeep

\* createDocument, second statement; the handler returns result[0]
CdReselect(r) ==
  /\ req[r].pc = "cd_reselect"
  /\ LET found == reselectDocument(req[r].pid, req[r].user)
     IN IF found = {}
        THEN req' = [req EXCEPT ![r] = FinishedDoc(@, "ok", "", None)]
        ELSE \E d \in found :
               req' = [req EXCEPT ![r] = FinishedDoc(@, "ok", "", Some(d))]
  /\ DbKeep

\* updateDocument, second statement; the handler returns result[0]
UdReadBack(r) ==
  /\ req[r].pc = "ud_readback"
  /\ LET found == readBackDocument(req[r].did)
     IN IF found = {}
        THEN req' = [req EXCEPT ![r] = FinishedDoc(@, "ok", "", None)]
        ELSE \E d \in found :
               req' = [req EXCEPT ![r] = FinishedDoc(@, "ok", "", Some(d))]
  /\ DbKeep

\* -------------------------------------------------------- documents.update
StartUpdateDocument(r) ==
  \E u \in Users, d \in DocumentIds, c \in UpdateContents :
    Begin(r, [op |-> "updateDocument", pc |-> "du_update", user |-> u,
              did |-> d, content |-> c])

\* db.updateDocument(input.id, userId, {content: input.content}), first
\* statement
UpdateDocumentUpdate(r) ==
  /\ req[r].pc = "du_update"
  /\ documents' = updateDocument(req[r].did, req[r].user,
                                 [content |-> req[r].content])
  /\ req' = [req EXCEPT ![r] = [@ EXCEPT !.pc = "ud_readback"]]
  /\ UNCHANGED nextDocumentId
  /\ VideosKeep

\* -------------------------------------------------------- documents.delete
StartDeleteDocument(r) ==
  \E u \in Users, d \in DocumentIds :
    Begin(r, [op |-> "deleteDocument", pc |-> "dd_delete", user |-> u, did |-> d])

DeleteDocumentDelete(r) ==
  /\ req[r].pc = "dd_delete"
  /\ documents' = deleteDocument(req[r].did, req[r].user)
  /\ req' = [req EXCEPT ![r] = FinishedDoc(@, "ok", "", None)]
  /\ UNCHANGED nextDocumentId
  /\ VideosKeep
\* ------------------------------------------- projects.generateThumbnail
\* what the prompt call answers, and what generateThumbnailPrompt returns
\* instead when the first block is not text, or when the call throws
PromptTexts == {<<"a", " ", "p", "i", "c">>}
NonTextPrompt(projectName) ==
  <<"A","b","s","t","r","a","c","t"," ","r","e","p","r","e","s","e","n","t",
    "a","t","i","o","n"," ","o","f"," ">> \o projectName
    \o <<" ","p","r","o","j","e","c","t">>
ErrorPrompt(projectName) ==
  <<"A","b","s","t","r","a","c","t"," ","p","r","o","f","e","s","s","i","o",
    "n","a","l"," ","i","l","l","u","s","t","r","a","t","i","o","n"," ",
    "r","e","p","r","e","s","e","n","t","i","n","g"," ">> \o projectName
ImageUrls == {"https://img/1.png"}
MsgThumbNotConfigured == "Anthropic API not configured"
MsgImage == "image generation failed"

\* UPDATE projects SET thumbnailUrl WHERE id AND userId
updateProjectThumbnail(projectId, userId, url) ==
  {IF p.id = projectId /\ p.userId = userId
   THEN [p EXCEPT !.thumbnailUrl = Some(url)] ELSE p : p \in projects}

StartGenerateThumbnail(r) ==
  \E u \in Users, p \in ProjectIds :
    Begin(r, [op |-> "generateThumbnail", pc |-> "th_project", user |-> u,
              pid |-> p])

ThumbnailFindProject(r) ==
  /\ req[r].pc = "th_project"
  /\ req' = [req EXCEPT ![r] =
               LET found == getProjectById(req[r].pid, req[r].user)
               IN IF found = {}
                  THEN FinishedDoc(@, "NOT_FOUND", "Project not found", None)
                  ELSE LET p == CHOOSE x \in found : TRUE
                       IN [@ EXCEPT !.pc = "th_document", !.name = p.name,
                                    !.description = p.description]]
  /\ DbKeep

\* doc?.content || project.description || project.name
thumbnailContext(doc, description, name) ==
  IF ~IsNone(doc) /\ Val(doc).content # EmptyText THEN Val(doc).content
  ELSE IF ~IsNone(description) /\ Val(description) # EmptyText
       THEN Val(description)
       ELSE name

ThumbnailDocument(r) ==
  /\ req[r].pc = "th_document"
  /\ LET found == getDocumentByProjectId(req[r].pid, req[r].user)
     IN \E doc \in (IF found = {} THEN {None} ELSE {Some(d) : d \in found}) :
          req' = [req EXCEPT ![r] =
                    [@ EXCEPT !.pc = "th_prompt",
                              !.content = thumbnailContext(doc, req[r].description,
                                                           req[r].name)]]
  /\ DbKeep

\* variant of generateThumbnailPrompt: a failed call is rethrown
ThumbnailPromptRethrowing(r) ==
  /\ req[r].pc = "th_prompt"
  /\ \/ req' = [req EXCEPT ![r] =
                  FinishedDoc(@, "ERROR", MsgThumbNotConfigured, None)]
     \/ req' = [req EXCEPT ![r] =
                  FinishedDoc([@ EXCEPT !.genCalls = @ + 1], "ERROR", MsgGenApi, None)]
     \/ \E t \in PromptTexts \cup {NonTextPrompt(req[r].name)} :
          req' = [req EXCEPT ![r] = [@ EXCEPT !.pc = "th_image", !.text = t,
                                              !.genCalls = @ + 1]]
  /\ DbKeep

\* generateThumbnailPrompt: without the client it throws; otherwise the call
\* answers with a text, or with a block that is not text, or throws, and the
\* last two are replaced by a fixed description
ThumbnailPrompt(r) ==
  /\ req[r].pc = "th_prompt"
  /\ \/ req' = [req EXCEPT ![r] =
                  FinishedDoc(@, "ERROR", MsgThumbNotConfigured, None)]
     \/ \E t \in PromptTexts \cup {NonTextPrompt(req[r].name),
                                   ErrorPrompt(req[r].name)} :
          req' = [req EXCEPT ![r] = [@ EXCEPT !.pc = "th_image", !.text = t,
                                              !.genCalls = @ + 1]]
  /\ DbKeep

\* const { url } = await generateImage({ prompt })
ThumbnailImage(r) ==
  /\ req[r].pc = "th_image"
  /\ \/ req' = [req EXCEPT ![r] = FinishedDoc(@, "ERROR", MsgImage, None)]
     \/ \E u \in ImageUrls :
          req' = [req EXCEPT ![r] = [@ EXCEPT !.pc = "th_update", !.url = u]]
  /\ DbKeep

\* await db.updateProject(id, userId, { thumbnailUrl }); return { thumbnailUrl }
ThumbnailUpdate(r) ==
  /\ req[r].pc = "th_update"
  /\ projects' = updateProjectThumbnail(req[r].pid, req[r].user, req[r].url)
  /\ req' = [req EXCEPT ![r] =
               FinishedDoc(@, "ok", "", Some([thumbnailUrl |-> req[r].url]))]
  /\ UNCHANGED <<videos, nextProjectId, nextVideoId, started, recorder, documents,
                 nextDocumentId>>
\* ------------------------------------------------------- stats.dashboard
\* SELECT ... WHERE userId (the order of the rows is not kept: the tables
\* hold fewer than six rows, and slice(0, 5) keeps every one of them)
getProjectsByUserId(userId) == {p \in projects : p.userId = userId}
getVideosByUserId(userId) ==
  [v \in {x \in DOMAIN videos : videos[x].userId = userId} |-> videos[v]]
getDocumentsByUserId(userId) == {d \in documents : d.userId = userId}

\* videos.filter(v => v.status === one of statuses).length
countByStatus(rows, statuses) ==
  Cardinality({v \in DOMAIN rows : rows[v].status \in statuses})
\* variant of the pending count: videos being transcribed are left out
pendingUploadedOnly(rows) == countByStatus(rows, {"uploaded"})
pendingVideos(rows) == countByStatus(rows, {"uploaded", "transcribing"})

dashboard(projectRows, videoRows, documentRows) ==
  [totalProjects     |-> Cardinality({p \in projectRows : ~p.isNewIdeas}),
   totalVideos       |-> Cardinality(DOMAIN videoRows),
   totalDocuments    |-> Cardinality(documentRows),
   transcribedVideos |-> countByStatus(videoRows, {"transcribed"}),
   pendingVideos     |-> pendingVideos(videoRows),
   recentProjects    |-> projectRows,
   recentVideos      |-> videoRows]

StartDashboard(r) ==
  \E u \in Users : Begin(r, [op |-> "dashboard", pc |-> "s_projects", user |-> u])

DashboardProjects(r) ==
  /\ req[r].pc = "s_projects"
  /\ \/ req' = [req EXCEPT ![r] =
                  [@ EXCEPT !.pc = "s_videos",
                            !.projectRows = getProjectsByUserId(req[r].user)]]
     \/ req' = [req EXCEPT ![r] = AfterThrow(@, DbError)]
  /\ DbKeep

DashboardVideos(r) ==
  /\ req[r].pc = "s_videos"
  /\ \/ req' = [req EXCEPT ![r] =
                  [@ EXCEPT !.pc = "s_documents",
                            !.videoRows = getVideosByUserId(req[r].user)]]
     \/ req' = [req EXCEPT ![r] = AfterThrow(@, DbError)]
  /\ DbKeep

DashboardDocuments(r) ==
  /\ req[r].pc = "s_documents"
  /\ \/ req' = [req EXCEPT ![r] =
                  Finished(@, "ok", "",
                           Some(dashboard(req[r].projectRows, req[r].videoRows,
                                          getDocumentsByUserId(req[r].user))))]
     \/ req' = [req EXCEPT ![r] = AfterThrow(@, DbError)]
  /\ DbKeep

\* ------------------------------------------------------------------- next
\* the steps of the video handlers, and of the helpers they share
StepVideo(r) ==
  \/ UploadStoragePut(r)
  \/ NoiSelect(r)
  \/ CpInsert(r)
  \/ CpReselect(r)
  \/ UploadCreateVideo(r)
  \/ TranscribeFind(r)
  \/ TranscribeSetStatus(r)
  \/ TranscribeClassify(r)
  \/ TranscribeAnalysis(r)
  \/ TranscribeGetByName(r)
  \/ TranscribePersist(r)
  \/ TranscribeReadBack(r)
  \/ TranscribeFail(r)
  \/ ReassignFindVideo(r)
  \/ ReassignFindProject(r)
  \/ ReassignUpdate(r)
  \/ DeleteVideoFind(r)
  \/ DeleteVideoDelete(r)

\* the steps of the project handlers
StepProject(r) ==
  \/ DeleteProjectFind(r)
  \/ DeleteProjectDelete(r)
  \/ CreateProjectCheck(r)
  \/ UpdateProjectUpdate(r)

\* The video pipeline under interleaving: upload, transcription, reassignment
\* and deletion requests overlap at their awaits.  A request that stops for
\* ever at an await (the process died during a collaborator call) is the run
\* in which it takes no further step.
StartVideo(r) ==
  \/ StartUpload(r)
  \/ StartTranscribe(r)
  \/ StartReassign(r)
  \/ StartDeleteVideo(r)

Next ==
  \/ \E r \in Slots : started < MaxRequests /\ StartVideo(r)
  \/ \E r \in Slots : StepVideo(r)
  \/ \E r \in Slots : TranscribeSttOverlap(r)

\* the tables after user 1 has uploaded a first video (SpecSeq reaches this
\* state from the empty tables: UploadedReached)
InitUploaded ==
  /\ projects = {[id |-> 1, userId |-> 1, name |-> NewIdeasName,
                  isNewIdeas |-> TRUE, color |-> NewIdeasColor,
                  description |-> Some(NewIdeasDescription),
                  thumbnailUrl |-> None, createdAt |-> 0]}
  /\ videos = [v \in {1} |-> NewVideo(1, 1)]
  /\ nextProjectId = 2
  /\ nextVideoId = 2
  /\ req = [r \in Slots |-> Idle]
  /\ started = 0
  /\ recorder = NotMounted
  /\ documents = {}
  /\ nextDocumentId = 1

Spec == InitUploaded /\ [][Next]_vars

\* Every operation, requests executed one at a time: a request starts when
\* none is in flight
NoneInFlight == \A r \in Slots : Free(r)

StartAny(r) ==
  \/ StartVideo(r)
  \/ StartDeleteProject(r)
  \/ StartGetNewIdeas(r)
  \/ StartCreateProject(r)
  \/ StartUpdateProject(r)

NextSeq ==
  \/ \E r \in Slots : started < MaxSeqRequests /\ NoneInFlight /\ StartAny(r)
  \/ \E r \in Slots : StepVideo(r)
  \/ \E r \in Slots : StepProject(r)
  \/ \E r \in Slots : TranscribeStt(r)

SpecSeq == Init /\ [][NextSeq]_vars


\* the tables InitUploaded starts from, as SpecSeq reaches them after the
\* first upload of user 1
UploadedReached ==
  /\ projects = {[id |-> 1, userId |-> 1, name |-> NewIdeasName,
                  isNewIdeas |-> TRUE, color |-> NewIdeasColor,
                  description |-> Some(NewIdeasDescription),
                  thumbnailUrl |-> None, createdAt |-> 0]}
  /\ videos = [v \in {1} |-> NewVideo(1, 1)]
  /\ nextProjectId = 2
  /\ nextVideoId = 2
  /\ documents = {}
  /\ NoneInFlight
\* ------------------------------------------------------------ synthesis
\* the steps of the document handlers, and of the reassignment that changes
\* which videos a project has
StepDocument(r) ==
  \/ GenerateFindProject(r)
  \/ GenerateVideos(r)
  \/ GenerateExisting(r)
  \/ GenerateContent(r)
  \/ GenerateSummary(r)
  \/ GenerateUpdate(r)
  \/ CdInsert(r)
  \/ CdReselect(r)
  \/ UdReadBack(r)
  \/ UpdateDocumentUpdate(r)
  \/ DeleteDocumentDelete(r)
  \/ ReassignFindVideo(r)
  \/ ReassignFindProject(r)
  \/ ReassignUpdate(r)

StartDocument(r) ==
  \/ StartGenerate(r)
  \/ StartUpdateDocument(r)
  \/ StartDeleteDocument(r)
  \/ StartReassign(r)

\* the tables after user 1 has uploaded two videos and the first has been
\* transcribed into the project "pho" that its transcription created; the
\* second is still uploaded, or was transcribed as a new idea, or was
\* transcribed to an empty text
TranscribedVideo(projectId, text, keyword) ==
  [userId |-> 1, projectId |-> projectId, transcription |-> Some(text),
   firstKeyword |-> Some(keyword), status |-> "transcribed",
   errorMessage |-> None]

InitTranscribed ==
  /\ projects = {[id |-> 1, userId |-> 1, name |-> NewIdeasName,
                  isNewIdeas |-> TRUE, color |-> NewIdeasColor,
                  description |-> Some(NewIdeasDescription),
                  thumbnailUrl |-> None, createdAt |-> 0],
                 [id |-> 2, userId |-> 1, name |-> PhoName,
                  isNewIdeas |-> FALSE, color |-> DefaultColor,
                  description |-> None, thumbnailUrl |-> None, createdAt |-> 0]}
  /\ \E second \in {NewVideo(1, 1),
                    TranscribedVideo(1, TNewIdea, NewIdeaKeyword),
                    TranscribedVideo(1, EmptyText, EmptyText)} :
       videos = [v \in {1, 2} |-> IF v = 1 THEN TranscribedVideo(2, TPho, PhoName)
                                  ELSE second]
  /\ nextProjectId = 3
  /\ nextVideoId = 3
  /\ req = [r \in Slots |-> Idle]
  /\ started = 0
  /\ recorder = NotMounted
  /\ documents = {}
  /\ nextDocumentId = 1

\* document requests that overlap at their awaits
NextDocs ==
  \/ \E r \in Slots : started < MaxDocRequests /\ StartDocument(r)
  \/ \E r \in Slots : StepDocument(r)

SpecDocs == InitTranscribed /\ [][NextDocs]_vars

\* document requests executed one at a time
NextDocsSeq ==
  \/ \E r \in Slots : started < MaxDocSeqRequests /\ NoneInFlight /\ StartDocument(r)
  \/ \E r \in Slots : StepDocument(r)

SpecDocsSeq == InitTranscribed /\ [][NextDocsSeq]_vars
\* ---------------------------------------------------- keyword extractor
\* The extractor as a function of its input: a transcript is a lead of white
\* space, then a spoken cue or a phrase of up to MaxExtractWords words, then
\* a tail.
Leads == {<< >>, <<" ">>, <<"\n", " ">>}
Gaps  == {<< >>, <<" ">>, <<" ", "\t">>}
Tails == {<< >>, <<",", " ", "x">>, <<".", " ", "x">>, <<" ", "x">>, <<"!">>}
SpokenStems ==
  {<<"n","o","u","v","e","l","l","e">>, <<"N","o","u","v","e","l","l","e">>,
   <<"n","o","u","v","e","l">>, <<"n","o","u","v","e","l","l">>,
   <<"n","o","u","v","e">>}
SpokenIdee == {<<"i","d","é","e">>, <<"i","d","e","e">>, <<"I","d","é","e">>}
SpokenCues ==
  {s \o g \o i : s \in SpokenStems, g \in Gaps, i \in SpokenIdee}
    \cup {n \o g \o i : n \in {<<"n","e","w">>, <<"N","e","w">>}, g \in Gaps,
                        i \in {<<"i","d","e","a">>, <<"I","d","e","a">>}}
ExtractWords == {PhoName, <<"n","o","u","v","e","l","l","e">>, <<"i","d","é","e">>}
Separators == {<<" ">>, <<" ", "\t">>}

RECURSIVE phrases(_)
phrases(k) ==
  IF k = 0 THEN {<< >>}
  ELSE phrases(k - 1) \cup
       {p \o (IF p = << >> THEN << >> ELSE s) \o w :
          p \in phrases(k - 1), s \in Separators, w \in ExtractWords}

Transcripts ==
  {l \o h \o t : l \in Leads, h \in SpokenCues \cup phrases(MaxExtractWords),
                 t \in Tails}

InitExtract ==
  /\ projects = {}
  /\ videos = << >>
  /\ nextProjectId = 1
  /\ nextVideoId = 1
  /\ \E t \in Transcripts :
       req = [r \in Slots |-> IF r = 1
                              THEN [Idle EXCEPT !.op = "extract", !.pc = "x_call",
                                                !.text = t]
                              ELSE Idle]
  /\ started = 0
  /\ recorder = NotMounted
  /\ documents = {}
  /\ nextDocumentId = 1

\* extractFirstKeyword(transcription) is called and returns
ExtractCall(r) ==
  /\ req[r].pc = "x_call"
  /\ req' = [req EXCEPT ![r] =
               [@ EXCEPT !.pc = "done", !.outcome = "ok",
                         !.resp = Some(extractFirstKeyword(req[r].text))]]
  /\ DbKeep

NextExtract == \E r \in Slots : ExtractCall(r)

SpecExtract == InitExtract /\ [][NextExtract]_vars
\* ------------------------------------------------------------ thumbnails
\* syntheses and thumbnail requests, executed one at a time
StepThumbnail(r) ==
  \/ GenerateFindProject(r)
  \/ GenerateVideos(r)
  \/ GenerateExisting(r)
  \/ GenerateContent(r)
  \/ GenerateSummary(r)
  \/ GenerateUpdate(r)
  \/ CdInsert(r)
  \/ CdReselect(r)
  \/ UdReadBack(r)
  \/ ThumbnailFindProject(r)
  \/ ThumbnailDocument(r)
  \/ ThumbnailPrompt(r)
  \/ ThumbnailImage(r)
  \/ ThumbnailUpdate(r)

NextThumbnail ==
  \/ \E r \in Slots : /\ started < MaxDocSeqRequests /\ NoneInFlight
                      /\ (StartGenerate(r) \/ StartGenerateThumbnail(r))
  \/ \E r \in Slots : StepThumbnail(r)

SpecThumbnail == InitTranscribed /\ [][NextThumbnail]_vars
\* ------------------------------------------------------------- dashboard
\* Dashboard requests that overlap, at their awaits, the transcriptions and
\* syntheses that are executed one at a time, from the tables after the
\* first upload or after the first transcription.
Writing(r) == req[r].op \in {"transcribe", "generate"} /\ req[r].pc # "done"
Reading(r) == req[r].op = "dashboard" /\ req[r].pc # "done"

StepStats(r) ==
  \/ TranscribeFind(r)
  \/ TranscribeSetStatus(r)
  \/ TranscribeStt(r)
  \/ TranscribeClassify(r)
  \/ TranscribeAnalysis(r)
  \/ TranscribeGetByName(r)
  \/ NoiSelect(r)
  \/ CpInsert(r)
  \/ CpReselect(r)
  \/ TranscribePersist(r)
  \/ TranscribeReadBack(r)
  \/ TranscribeFail(r)
  \/ GenerateFindProject(r)
  \/ GenerateVideos(r)
  \/ GenerateExisting(r)
  \/ GenerateContent(r)
  \/ GenerateSummary(r)
  \/ GenerateUpdate(r)
  \/ CdInsert(r)
  \/ CdReselect(r)
  \/ UdReadBack(r)
  \/ DashboardProjects(r)
  \/ DashboardVideos(r)
  \/ DashboardDocuments(r)

NextStats ==
  \/ \E r \in Slots : /\ started < MaxStatsRequests
                      /\ \A q \in Slots : ~Writing(q)
                      /\ (StartTranscribe(r) \/ StartGenerate(r))
  \/ \E r \in Slots : /\ started < MaxStatsRequests
                      /\ \A q \in Slots : ~Reading(q)
                      /\ StartDashboard(r)
  \/ \E r \in Slots : StepStats(r)

InitStats == InitUploaded \/ InitTranscribed

SpecStats == InitStats /\ [][NextStats]_vars
\* ------------------------------------------------- pairs of transcriptions
\* Transcription requests that overlap at their awaits, from the tables after
\* user 1 has uploaded two videos (SpecSeq reaches this state from the empty
\* tables: TwoUploadedReached).
StepPair(r) ==
  \/ TranscribeFind(r)
  \/ TranscribeSetStatus(r)
  \/ TranscribeClassify(r)
  \/ TranscribeStt(r)
  \/ TranscribeAnalysis(r)
  \/ TranscribeGetByName(r)
  \/ NoiSelect(r)
  \/ CpInsertPair(r)
  \/ CpReselect(r)
  \/ TranscribePersist(r)
  \/ TranscribeReadBack(r)
  \/ TranscribeFail(r)

NextPair ==
  \/ \E r \in Slots : started < MaxPairRequests /\ StartTranscribe(r)
  \/ \E r \in Slots : StepPair(r)

InitTwoUploaded ==
  /\ projects = {[id |-> 1, userId |-> 1, name |-> NewIdeasName,
                  isNewIdeas |-> TRUE, color |-> NewIdeasColor,
                  description |-> Some(NewIdeasDescription),
                  thumbnailUrl |-> None, createdAt |-> 0]}
  /\ videos = [v \in {1, 2} |-> NewVideo(1, 1)]
  /\ nextProjectId = 2
  /\ nextVideoId = 3
  /\ req = [r \in Slots |-> Idle]
  /\ started = 0
  /\ recorder = NotMounted
  /\ documents = {}
  /\ nextDocumentId = 1

SpecPair == InitTwoUploaded /\ [][NextPair]_vars

TwoUploadedReached ==
  /\ projects = {[id |-> 1, userId |-> 1, name |-> NewIdeasName,
                  isNewIdeas |-> TRUE, color |-> NewIdeasColor,
                  description |-> Some(NewIdeasDescription),
                  thumbnailUrl |-> None, createdAt |-> 0]}
  /\ videos = [v \in {1, 2} |-> NewVideo(1, 1)]
  /\ nextProjectId = 2
  /\ nextVideoId = 3
  /\ documents = {}
  /\ NoneInFlight
\* ------------------------------------------- first accesses to New Ideas
\* Uploads and getNewIdeas requests that overlap at their awaits, from the
\* empty tables.
StepNoi(r) ==
  \/ UploadStoragePut(r)
  \/ NoiSelect(r)
  \/ CpInsert(r)
  \/ CpReselect(r)
  \/ UploadCreateVideo(r)

NextNoi ==
  \/ \E r \in Slots : /\ started < MaxNoiRequests
                      /\ (StartUpload(r) \/ StartGetNewIdeas(r))
  \/ \E r \in Slots : StepNoi(r)

SpecNoi == Init /\ [][NextNoi]_vars
\* ------------------------------------------------------------ resynthesis
\* Syntheses and manual updates that overlap at their awaits, from the tables
\* after the first synthesis of the project "pho" (SpecDocsSeq reaches these
\* states: SynthesizedReached).
StepResynth(r) ==
  \/ GenerateFindProject(r)
  \/ GenerateVideos(r)
  \/ GenerateExisting(r)
  \/ GenerateContent(r)
  \/ GenerateSummary(r)
  \/ GenerateUpdate(r)
  \/ CdInsert(r)
  \/ CdReselect(r)
  \/ UdReadBack(r)
  \/ UpdateDocumentUpdate(r)

NextResynthUpTo(max) ==
  \/ \E r \in Slots : /\ started < max
                      /\ (StartGenerate(r) \/ StartUpdateDocument(r))
  \/ \E r \in Slots : StepResynth(r)

NextResynth == NextResynthUpTo(MaxResynthRequests)

NextResynthLong == NextResynthUpTo(MaxLongRequests)

\* the document the first synthesis of "pho" inserted
FirstDocument(content, summary) ==
  [id |-> 1, projectId |-> 2, userId |-> 1,
   title |-> titleOf(content, PhoName), content |-> content, version |-> 1,
   versionNotes |-> summary, videosIncorporated |-> 1, createdAt |-> 0]

InitSynthesized ==
  /\ projects = {[id |-> 1, userId |-> 1, name |-> NewIdeasName,
                  isNewIdeas |-> TRUE, color |-> NewIdeasColor,
                  description |-> Some(NewIdeasDescription),
                  thumbnailUrl |-> None, createdAt |-> 0],
                 [id |-> 2, userId |-> 1, name |-> PhoName,
                  isNewIdeas |-> FALSE, color |-> DefaultColor,
                  description |-> None, thumbnailUrl |-> None, createdAt |-> 0]}
  /\ \E second \in {NewVideo(1, 1),
                    TranscribedVideo(1, TNewIdea, NewIdeaKeyword)} :
       videos = [v \in {1, 2} |-> IF v = 1 THEN TranscribedVideo(2, TPho, PhoName)
                                  ELSE second]
  /\ nextProjectId = 3
  /\ nextVideoId = 3
  /\ req = [r \in Slots |-> Idle]
  /\ started = 0
  /\ recorder = NotMounted
  /\ documents = {FirstDocument(DocTitled, SummaryText)}
  /\ nextDocumentId = 2

SpecResynth == InitSynthesized /\ [][NextResynth]_vars

SpecResynthLong == InitSynthesized /\ [][NextResynthLong]_vars

SynthesizedReached ==
  /\ documents = {FirstDocument(DocTitled, SummaryText)}
  /\ nextDocumentId = 2
  /\ videos[1] = TranscribedVideo(2, TPho, PhoName)
  /\ NoneInFlight
\* ------------------------------------- transcriptions and reassignments
\* Transcription and reassignment requests that overlap at their awaits, from
\* the tables after the first upload or after the first transcription.
StepMove(r) ==
  \/ TranscribeFind(r)
  \/ TranscribeSetStatus(r)
  \/ TranscribeClassify(r)
  \/ TranscribeStt(r)
  \/ TranscribeAnalysis(r)
  \/ TranscribeGetByName(r)
  \/ NoiSelect(r)
  \/ CpInsert(r)
  \/ CpReselect(r)
  \/ TranscribePersist(r)
  \/ TranscribeReadBack(r)
  \/ TranscribeFail(r)
  \/ ReassignFindVideo(r)
  \/ ReassignFindProject(r)
  \/ ReassignUpdate(r)

NextMove ==
  \/ \E r \in Slots : /\ started < MaxMoveRequests
                      /\ (StartTranscribe(r) \/ StartReassign(r))
  \/ \E r \in Slots : StepMove(r)

SpecMove == InitStats /\ [][NextMove]_vars
\* ------------------------------------------ transcriptions that complete
\* await db.updateVideo(id, userId, { status: "transcribing" }) throws: from
\* its UPDATE or, the UPDATE applied, from the SELECT that reads the row
\* back.  The call stands before the try block: the request ends with that
\* error and the catch block is not entered.
TranscribeSetStatusThrow(r) ==
  /\ req[r].pc = "t_setTranscribing"
  /\ \/ /\ videos' = videos
        /\ req' = [req EXCEPT ![r] = Finished(@, "ERROR", MsgDb, None)]
     \/ /\ videos' = updateVideo(req[r].vid, req[r].user, [status |-> "transcribing"])
        /\ req' = Written(r, Finished(req[r], "ERROR", MsgDb, None),
                          req[r].vid, "status")
  /\ UNCHANGED <<projects, nextProjectId, nextVideoId, started, recorder,
               documents, nextDocumentId>>

\* catch (error): await db.updateVideo(..., { status: "error", errorMessage })
\* throws, from its UPDATE or, the UPDATE applied, from the SELECT that reads
\* the row back; the error leaves the handler in place of
\* INTERNAL_SERVER_ERROR(errorMessage)
TranscribeFailThrow(r) ==
  /\ req[r].pc = "t_catch"
  /\ \/ /\ videos' = videos
        /\ req' = [req EXCEPT ![r] = Finished(@, "ERROR", MsgDb, None)]
     \/ /\ videos' = updateVideo(req[r].vid, req[r].user,
                       [status |-> "error", errorMessage |-> Some(req[r].msg)])
        /\ req' = Written(r, Finished(req[r], "ERROR", MsgDb, None),
                          req[r].vid, "status")
  /\ UNCHANGED <<projects, nextProjectId, nextVideoId, started, recorder,
               documents, nextDocumentId>>

\* Overlapping transcription requests in which every awaited call returns or
\* throws: the continuation of a request that waits at an await is run at
\* last (weak fairness of the steps of each request).
StepLive(r) ==
  \/ TranscribeFind(r)
  \/ TranscribeSetStatus(r)
  \/ TranscribeSetStatusThrow(r)
  \/ TranscribeClassify(r)
  \/ TranscribeStt(r)
  \/ TranscribeAnalysis(r)
  \/ TranscribeGetByName(r)
  \/ NoiSelect(r)
  \/ CpInsert(r)
  \/ CpReselect(r)
  \/ TranscribePersist(r)
  \/ TranscribeReadBack(r)
  \/ TranscribeFail(r)
  \/ TranscribeFailThrow(r)

NextLive ==
  \/ \E r \in Slots : started < MaxLiveRequests /\ StartTranscribe(r)
  \/ \E r \in Slots : StepLive(r)

SpecLive ==
  /\ InitUploaded
  /\ [][NextLive]_vars
  /\ \A r \in Slots : WF_vars(StepLive(r))
\* ------------------------------------------------------ the video recorder
\* The VideoRecorder component of the recording page.  Time is counted in
\* seconds and passes, while the interval timer runs, from one tick to the
\* next.  The page mounts the recorder with maxDuration={300} and only while
\* no upload is in progress, so that isUploading is false while it is mounted.
\*
\* startRecording is useCallback(..., [maxDuration]): maxDuration never
\* changes, so the function of the first render is the one every later
\* render hands to the start button.  The stopRecording it names is the
\* stopRecording of that first render, useCallback(..., [isRecording]) with
\* the isRecording of that render.
RecorderKeep == UNCHANGED <<projects, videos, nextProjectId, nextVideoId, req,
                            started, documents, nextDocumentId>>

\* the state after the first render: useState and useRef initial values
Mounted ==
  [mounted |-> TRUE,
   isRecording |-> FALSE, isPreviewing |-> FALSE, recordedBlob |-> FALSE,
   recordingTime |-> 0, error |-> FALSE, cameraReady |-> FALSE,
   stream |-> FALSE,            \* streamRef.current is set
   mediaRecorder |-> "null",    \* mediaRecorderRef.current and its state
   onstop |-> FALSE,            \* a stop event of a MediaRecorder is queued
   timer |-> None,              \* timerRef.current: the interval, or null
   startTime |-> 0,             \* startTimeRef.current
   startRecording |-> [isRecording |-> FALSE],
   now |-> 0]                   \* Date.now()

\* the page opens: first render, then the mount effect starts initCamera
Mount ==
  /\ ~recorder.mounted
  /\ recorder' = Mounted
  /\ RecorderKeep

\* the page is left, or an upload starts: the cleanup of the effect stops the
\* tracks and clears the interval
Unmount ==
  /\ recorder.mounted
  /\ recorder' = NotMounted
  /\ RecorderKeep

\* initCamera, from the mount effect or the retry button: getUserMedia
\* resolves with a stream or rejects
initCamera ==
  /\ recorder.mounted
  /\ ~recorder.cameraReady
  /\ \/ recorder' = [recorder EXCEPT !.error = FALSE, !.stream = TRUE,
                                     !.cameraReady = TRUE]
     \/ recorder' = [recorder EXCEPT !.error = TRUE, !.cameraReady = FALSE]
  /\ RecorderKeep

\* stopRecording of a render whose isRecording is `isRecording`:
\* if (mediaRecorderRef.current && isRecording) { stop(); setIsRecording(false);
\* clearInterval(timerRef.current); timerRef.current = null }
stopRecording(c, isRecording) ==
  IF c.mediaRecorder # "null" /\ isRecording
  THEN [c EXCEPT !.mediaRecorder = "inactive",
                 !.onstop = (c.mediaRecorder = "recording") \/ c.onstop,
                 !.isRecording = FALSE, !.timer = None]
  ELSE c

\* the start button (shown when neither recording nor previewing, enabled
\* when the camera is ready): startRecording of the first render
startRecording ==
  /\ recorder.mounted
  /\ ~recorder.isPreviewing /\ ~recorder.isRecording /\ recorder.cameraReady
  /\ recorder.stream
  /\ recorder' = [recorder EXCEPT
       !.recordingTime = 0,
       !.startTime = recorder.now,
       !.mediaRecorder = "recording",
       !.isRecording = TRUE,
       !.timer = Some([isRecording |-> recorder.startRecording.isRecording])]
  /\ RecorderKeep

\* the interval fires, one second after the previous tick:
\* elapsed = floor((Date.now() - startTime) / 1000); setRecordingTime(elapsed);
\* if (elapsed >= maxDuration) stopRecording()
Tick ==
  /\ recorder.mounted
  /\ ~IsNone(recorder.timer)
  /\ recorder.now < MaxSeconds
  /\ LET now == recorder.now + 1
         elapsed == now - recorder.startTime
         c == [recorder EXCEPT !.now = now, !.recordingTime = elapsed]
     IN recorder' = IF elapsed >= maxDuration
                    THEN stopRecording(c, recorder.timer[1].isRecording)
                    ELSE c
  /\ RecorderKeep

\* the stop button (shown while isRecording): stopRecording of the current
\* render
StopButton ==
  /\ recorder.mounted
  /\ ~recorder.isPreviewing /\ recorder.isRecording
  /\ recorder' = stopRecording(recorder, recorder.isRecording)
  /\ RecorderKeep

\* mediaRecorder.onstop: the blob is built and the preview is shown
OnStop ==
  /\ recorder.mounted
  /\ recorder.onstop
  /\ recorder' = [recorder EXCEPT !.onstop = FALSE, !.recordedBlob = TRUE,
                                  !.isPreviewing = TRUE]
  /\ RecorderKeep

\* the "Refaire" button of the preview
cancelPreview ==
  /\ recorder.mounted
  /\ recorder.isPreviewing
  /\ recorder' = [recorder EXCEPT !.isPreviewing = FALSE, !.recordedBlob = FALSE,
                                  !.recordingTime = 0]
  /\ RecorderKeep

\* the "Envoyer" button of the preview: onVideoReady starts the upload, and
\* the page replaces the recorder by the progress card
confirmVideo ==
  /\ recorder.mounted
  /\ recorder.isPreviewing
  /\ recorder.recordedBlob
  /\ recorder' = NotMounted
  /\ RecorderKeep

NextRecorder ==
  \/ Mount
  \/ Unmount
  \/ initCamera
  \/ startRecording
  \/ Tick
  \/ StopButton
  \/ OnStop
  \/ cancelPreview
  \/ confirmVideo

SpecRecorder == Init /\ [][NextRecorder]_vars

\* ======================================================== the claims
\* helpers of the formulas below
Exists(v) == v \in DOMAIN videos
ExistsAfter(v) == v \in DOMAIN videos'
Transcribing(r) == req[r].op = "transcribe" /\ req[r].pc # "done"
\* request r takes the step from pc `from`
Leaves(r, from) == req[r].pc = from /\ req'[r].pc # from
\* the columns of the videos table other than status and errorMessage
SameContent(a, b) ==
  /\ a.userId = b.userId /\ a.projectId = b.projectId
  /\ a.transcription = b.transcription /\ a.firstKeyword = b.firstKeyword
TablesUnchanged ==
  /\ projects' = projects /\ videos' = videos
  /\ nextProjectId' = nextProjectId /\ nextVideoId' = nextVideoId
  /\ documents' = documents /\ nextDocumentId' = nextDocumentId

\* ---- C1: every change of a video's status follows one of the edges
\* uploading->uploaded, uploaded->transcribing, transcribing->transcribed,
\* transcribing->error, error->transcribing; no other status change occurs.
StatusEdges ==
  { <<"uploading", "uploaded">>, <<"uploaded", "transcribing">>,
    <<"transcribing", "transcribed">>, <<"transcribing", "error">>,
    <<"error", "transcribing">> }

C1_StatusFollowsEdges ==
  [][\A v \in VideoIds :
       (Exists(v) /\ ExistsAfter(v) /\ videos'[v].status # videos[v].status)
         => <<videos[v].status, videos'[v].status>> \in StatusEdges]_vars

\* the steps of videos.transcribe inside its try block, and among them the
\* ones at which a call to a collaborator is in progress
TryPcs ==
  {"t_classify", "t_stt", "t_analysis", "noi_select", "cp_insert",
   "cp_reselect", "t_getByName", "t_persist"}
CallPcs == {"t_stt", "t_analysis"}

\* the messages a failure at a step can carry
Raised(pc) ==
  CASE pc = "t_classify" -> {MsgNotConfigured}
    [] pc = "t_stt" -> {MsgStt, MsgDefault}
    [] pc = "t_analysis" -> {MsgSyntax, MsgAnalysis}
    [] pc = "cp_reselect" -> {MsgDb, MsgUndefined}
    [] OTHER -> {MsgDb}

C4_TranscribingDuringCalls ==
  \A r \in Slots :
    (req[r].op = "transcribe" /\ req[r].pc \in CallPcs /\ Exists(req[r].vid))
      => videos[req[r].vid].status = "transcribing"

\* ---- C4 (amended): the status is written as transcribing before the first
\* external call is issued, so while a collaborator call of the request is in
\* progress the video exists with status transcribing unless another request
\* has written the video's status or deleted the video since; a request for
\* a video that does not exist for the caller ends with NOT_FOUND and
\* changes nothing, and no call is issued before the write.
C4_TranscribingUnlessOverwritten ==
  [][\A r \in Slots :
       /\ (req'[r].op = "transcribe" /\ req'[r].pc \in CallPcs
           /\ req'[r].touched # "status")
            => /\ ExistsAfter(req'[r].vid)
               /\ videos'[req'[r].vid].status = "transcribing"
       /\ (req[r].op = "transcribe" /\ Leaves(r, "t_find")) =>
            IF IsNone(getVideoById(req[r].vid, req[r].user))
            THEN /\ req'[r].pc = "done" /\ req'[r].outcome = "NOT_FOUND"
                 /\ TablesUnchanged
            ELSE req'[r].pc = "t_setTranscribing"
       /\ (req[r].op = "transcribe"
           /\ req[r].pc \in {"t_find", "t_setTranscribing"})
            => req'[r].sttCalls = 0 /\ req'[r].anaCalls = 0]_vars

\* a speech-to-text call is in progress on a video that a reassignment has
\* touched meanwhile: the status is still transcribing
C4_Witness ==
  \E r \in Slots :
    /\ req[r].op = "transcribe" /\ req[r].pc = "t_stt"
    /\ req[r].touched = "assign"
    /\ Exists(req[r].vid) /\ videos[req[r].vid].status = "transcribing"

\* the row of video v after the final update of request q
Persisted(q, row) ==
  [row EXCEPT !.transcription = Some(Val(q.result).text),
              !.firstKeyword = Some(Val(q.result).firstKeyword),
              !.projectId = q.target,
              !.status = "transcribed"]

\* ---- C5: transcript, keyword, project assignment and status transcribed
\* are persisted in one update: a transcribed video always has a transcript
\* and a keyword; whenever the transcript or the keyword of a video changes,
\* the same step is the final update of a transcription request and leaves
\* the row with that request's transcript, keyword, project and status
\* transcribed; and while the status stays transcribing the transcript and
\* the keyword do not change and no transcription request changes the project.
C5_SingleUpdate ==
  [][/\ \A v \in DOMAIN videos' :
          videos'[v].status = "transcribed"
            => ~IsNone(videos'[v].transcription) /\ ~IsNone(videos'[v].firstKeyword)
     /\ \A v \in DOMAIN videos \cap DOMAIN videos' :
          /\ (videos'[v].transcription # videos[v].transcription
              \/ videos'[v].firstKeyword # videos[v].firstKeyword)
               => \E r \in Slots :
                    /\ req[r].op = "transcribe" /\ req[r].pc = "t_persist"
                    /\ req[r].vid = v /\ req'[r].pc = "t_readback"
                    /\ videos'[v] = Persisted(req[r], videos[v])
          /\ (videos[v].status = "transcribing" /\ videos'[v].status = "transcribing")
               => /\ videos'[v].transcription = videos[v].transcription
                  /\ videos'[v].firstKeyword = videos[v].firstKeyword
                  /\ videos'[v].projectId # videos[v].projectId
                       => \E r \in Slots : req[r].op = "reassign"
                                           /\ req[r].pc = "r_update"
                                           /\ req'[r].pc = "done"
     /\ \A r \in Slots :
          (req[r].op = "transcribe" /\ req[r].pc = "t_persist"
           /\ req'[r].pc = "t_readback" /\ Exists(req[r].vid))
            => videos'[req[r].vid] = Persisted(req[r], videos[req[r].vid])]_vars

\* a video has been transcribed and moved to the project its keyword names
C5_Witness ==
  \E v \in DOMAIN videos :
    /\ videos[v].status = "transcribed"
    /\ videos[v].transcription = Some(TPho)
    /\ videos[v].firstKeyword = Some(PhoName)
    /\ videos[v].projectId = 2

OneCallEach ==
  \A r \in Slots : req'[r].sttCalls <= 1 /\ req'[r].anaCalls <= 1

\* ---- C7 as stated: each request issues at most one speech-to-text and one
\* analysis call, and a video in status error stays in error until a new
\* transcription request moves it back to transcribing.
C7_ErrorUntilNewRequest ==
  [][/\ OneCallEach
     /\ \A v \in DOMAIN videos \cap DOMAIN videos' :
          (videos[v].status = "error" /\ videos'[v].status # "error")
            => /\ videos'[v].status = "transcribing"
               /\ \E r \in Slots : /\ req[r].op = "transcribe" /\ req[r].vid = v
                                   /\ req[r].pc = "t_setTranscribing"
                                   /\ req'[r].pc = "t_classify"]_vars

\* ---- C7 (amended): each request issues at most one speech-to-text and one
\* analysis call, and a video in status error leaves that status only by a
\* write of a transcription request on it: the first write of a request,
\* which moves it to transcribing, or the final update of a request that was
\* already past its first write when the error was stored, which moves it to
\* transcribed.
C7_ErrorUntilTranscriptionWrite ==
  [][/\ OneCallEach
     /\ \A v \in DOMAIN videos \cap DOMAIN videos' :
          (videos[v].status = "error" /\ videos'[v].status # "error")
            => \E r \in Slots :
                 /\ req[r].op = "transcribe" /\ req[r].vid = v
                 /\ \/ /\ req[r].pc = "t_setTranscribing"
                       /\ req'[r].pc = "t_classify"
                       /\ videos'[v].status = "transcribing"
                    \/ /\ req[r].pc = "t_persist" /\ req'[r].pc = "t_readback"
                       /\ req[r].touched = "status"
                       /\ videos'[v].status = "transcribed"]_vars

\* after a failed request, a new request on the same video has moved it back
\* to transcribing and is about to call the classifier once
C7_Witness ==
  \E r, f \in Slots :
    /\ req[f].op = "transcribe" /\ req[f].pc = "done"
    /\ req[f].outcome = "INTERNAL_SERVER_ERROR"
    /\ req[r].op = "transcribe" /\ req[r].pc = "t_stt" /\ req[r].vid = req[f].vid
    /\ req[r].sttCalls = 1 /\ req[r].touched = "none"
    /\ Exists(req[r].vid)
    /\ videos[req[r].vid].status = "transcribing"
    /\ videos[req[r].vid].errorMessage = Some(req[f].msg)

\* ---- C8: reassigning a video to a project of the caller is carried out
\* whatever the video's status and changes only that video's projectId;
\* deleting a video is carried out whatever its status and removes only that
\* video; a reassignment to a project that does not exist for the caller
\* ends with NOT_FOUND and changes nothing.
C8_ReassignDeleteFrame ==
  [][\A r \in Slots :
       /\ (req[r].op = "reassign" /\ Leaves(r, "r_findVideo")) =>
            /\ TablesUnchanged
            /\ IF IsNone(getVideoById(req[r].vid, req[r].user))
               THEN req'[r].pc = "done" /\ req'[r].outcome = "NOT_FOUND"
               ELSE req'[r].pc = "r_findProject"
       /\ (req[r].op = "reassign" /\ Leaves(r, "r_findProject")) =>
            /\ TablesUnchanged
            /\ IF getProjectById(req[r].pid, req[r].user) = {}
               THEN req'[r].pc = "done" /\ req'[r].outcome = "NOT_FOUND"
               ELSE req'[r].pc = "r_update"
       /\ (req[r].op = "reassign" /\ Leaves(r, "r_update")) =>
            /\ req'[r].pc = "done" /\ req'[r].outcome = "ok"
            /\ projects' = projects
            /\ DOMAIN videos' = DOMAIN videos
            /\ \A v \in DOMAIN videos :
                 videos'[v] = IF v = req[r].vid /\ videos[v].userId = req[r].user
                              THEN [videos[v] EXCEPT !.projectId = req[r].pid]
                              ELSE videos[v]
       /\ (req[r].op = "deleteVideo" /\ Leaves(r, "d_find")) =>
            /\ TablesUnchanged
            /\ IF IsNone(getVideoById(req[r].vid, req[r].user))
               THEN req'[r].pc = "done" /\ req'[r].outcome = "NOT_FOUND"
               ELSE req'[r].pc = "d_delete"
       /\ (req[r].op = "deleteVideo" /\ Leaves(r, "d_delete")) =>
            /\ req'[r].pc = "done" /\ req'[r].outcome = "ok"
            /\ projects' = projects
            /\ IsNone(getVideoById(req[r].vid, req[r].user)) => videos' = videos
            /\ ~IsNone(getVideoById(req[r].vid, req[r].user)) =>
                 /\ DOMAIN videos' = DOMAIN videos \ {req[r].vid}
                 /\ \A v \in DOMAIN videos' : videos'[v] = videos[v]]_vars

\* a video was reassigned to the second project while its transcription was
\* in progress: it is still transcribing, in the project it was moved to
C8_Witness ==
  \E r, t \in Slots :
    /\ req[r].op = "reassign" /\ req[r].pc = "done" /\ req[r].outcome = "ok"
    /\ req[t].op = "transcribe" /\ req[t].vid = req[r].vid
    /\ req[t].touched = "assign"
    /\ Exists(req[r].vid)
    /\ videos[req[r].vid].status = "transcribing"
    /\ videos[req[r].vid].projectId = 2

\* the new-ideas projects of user u among the rows ps
NewIdeasOf(ps, u) == {p \in ps : p.userId = u /\ p.isNewIdeas}

\* ---- C9: with requests executed one at a time, a user has no new-ideas
\* project until a first access (upload, getNewIdeas or a new-idea
\* transcription) inserts it, and exactly one from then on: it is created
\* only by such an access, a successful access leaves exactly one, no step
\* creates a second one or removes it, and no step changes the isNewIdeas
\* flag (or the owner) of an existing project.
C9_OneNewIdeasProject ==
  [][\A u \in Users :
       /\ Cardinality(NewIdeasOf(projects', u)) <= 1
       /\ NewIdeasOf(projects, u) # {} =>
            {p.id : p \in NewIdeasOf(projects', u)}
              = {p.id : p \in NewIdeasOf(projects, u)}
       /\ (NewIdeasOf(projects, u) = {} /\ NewIdeasOf(projects', u) # {}) =>
            \E r \in Slots :
              /\ req[r].user = u /\ req[r].pc = "cp_insert" /\ req[r].flag
              /\ req[r].op \in {"upload", "getNewIdeas", "transcribe"}
              /\ req[r].op = "transcribe" => Val(req[r].result).isNewIdea
       /\ \A p \in projects, q \in projects' :
            p.id = q.id => q.isNewIdeas = p.isNewIdeas /\ q.userId = p.userId
       /\ \A r \in Slots :
            /\ (req'[r].user = u /\ req'[r].pc = "done" /\ req'[r].outcome = "ok"
                /\ req'[r].op \in {"upload", "getNewIdeas"})
                 => Cardinality(NewIdeasOf(projects', u)) = 1
            /\ (req'[r].user = u /\ req'[r].op = "transcribe"
                /\ req'[r].pc \in {"t_persist", "t_readback"}
                /\ Val(req'[r].result).isNewIdea)
                 => Cardinality(NewIdeasOf(projects', u)) = 1]_vars

\* a user has uploaded twice: both videos are in the one new-ideas project
C9_Witness ==
  \E u \in Users :
    /\ Cardinality(NewIdeasOf(projects, u)) = 1
    /\ \E v, w \in DOMAIN videos :
         /\ v # w
         /\ videos[v].userId = u /\ videos[w].userId = u
         /\ \E p \in NewIdeasOf(projects, u) :
              videos[v].projectId = p.id /\ videos[w].projectId = p.id

\* ---- C10: projects.delete on the caller's new-ideas project ends with
\* FORBIDDEN whatever the caller's role and leaves the tables unchanged; on a
\* project that does not exist for the caller it ends with NOT_FOUND; on
\* another project of the caller it goes on to delete exactly that project
\* and succeeds.
C10_DeleteProject ==
  [][\A r \in Slots : req[r].op = "deleteProject" =>
       /\ Leaves(r, "p_find") =>
            /\ TablesUnchanged
            /\ LET project == getProjectById(req[r].pid, req[r].user)
               IN IF project = {}
                  THEN req'[r].pc = "done" /\ req'[r].outcome = "NOT_FOUND"
                  ELSE IF \E p \in project : p.isNewIdeas
                  THEN req'[r].pc = "done" /\ req'[r].outcome = "FORBIDDEN"
                  ELSE req'[r].pc = "p_delete"
       /\ Leaves(r, "p_delete") =>
            /\ req'[r].pc = "done" /\ req'[r].outcome = "ok"
            /\ projects' = projects \ getProjectById(req[r].pid, req[r].user)
            /\ videos' = videos]_vars

\* an admin asked to delete their new-ideas project: refused, it still exists
C10_Witness ==
  \E r \in Slots :
    /\ req[r].op = "deleteProject" /\ req[r].pc = "done"
    /\ req[r].outcome = "FORBIDDEN"
    /\ role[req[r].user] = "admin"
    /\ NewIdeasOf(projects, req[r].user) # {}

\* ---- C11: projects.create with a name that a project of the caller
\* already has ends with CONFLICT and changes no table; a name that only
\* projects of other users have does not stop it: it goes on to insert one
\* ordinary project of the caller with that name.
C11_CreateConflict ==
  [][\A r \in Slots : req[r].op = "createProject" =>
       /\ Leaves(r, "c_getByName") =>
            /\ TablesUnchanged
            /\ IF \E p \in projects : p.userId = req[r].user /\ p.name = req[r].name
               THEN req'[r].pc = "done" /\ req'[r].outcome = "CONFLICT"
               ELSE /\ req'[r].pc = "cp_insert"
                    /\ req'[r].name = req[r].name /\ req'[r].user = req[r].user
       /\ (Leaves(r, "cp_insert") /\ req'[r].pc # "done") =>
            /\ projects' = projects \cup
                 {[id |-> nextProjectId, userId |-> req[r].user,
                   name |-> req[r].name, isNewIdeas |-> FALSE,
                   color |-> req[r].color, description |-> None,
                          thumbnailUrl |-> None, createdAt |-> p.createdAt]
                    : p \in projects' \ projects}
            /\ Cardinality(projects' \ projects) = 1
       /\ (req[r].pc # "done" /\ req'[r].pc = "done" /\ req'[r].outcome # "ok")
            => projects' = projects]_vars

\* both users have created a project with the same name
C11_Witness ==
  \E r \in Slots :
    /\ req[r].op = "createProject" /\ req[r].pc = "done" /\ req[r].outcome = "ok"
    /\ \E p, q \in projects :
         /\ p.name = PhoName /\ q.name = PhoName
         /\ p.userId = req[r].user /\ q.userId # req[r].user
         /\ ~p.isNewIdeas

\* ---- C12: in every reachable state no two projects of the same user have
\* the same name.
C12_UniqueNames ==
  \A p, q \in projects :
    (p.userId = q.userId /\ p.name = q.name) => p.id = q.id

\* the classification a transcription request has obtained: a new idea, a
\* project name, or neither
Classified(q) == q.op = "transcribe" /\ ~IsNone(q.result)
IsNewIdeaResult(q) == Classified(q) /\ Val(q.result).isNewIdea
IsNamedResult(q) ==
  /\ Classified(q) /\ ~Val(q.result).isNewIdea
  /\ ~IsNone(Val(q.result).suggestedProjectName)
  /\ Val(Val(q.result).suggestedProjectName) # EmptyText
IsUnnamedResult(q) ==
  /\ Classified(q) /\ ~Val(q.result).isNewIdea
  /\ \/ IsNone(Val(q.result).suggestedProjectName)
     \/ Val(Val(q.result).suggestedProjectName) = EmptyText
SuggestedName(q) == Val(Val(q.result).suggestedProjectName)
\* request r makes its final update successfully
Persists(r) == req[r].pc = "t_persist" /\ req'[r].pc = "t_readback"
Classifies(r) == req[r].pc = "t_analysis" /\ req'[r].pc \notin {"t_analysis", "t_catch"}

\* ---- C13: when the classification says new idea, the request goes to the
\* get-or-create of the user's new-ideas project whatever the suggested name
\* is, the target it resolves is a project of the user with isNewIdeas, the
\* final update puts the video there, and no step of the request inserts a
\* project without the flag.
C13_NewIdeaToNewIdeasProject ==
  [][\A r \in Slots : req[r].op = "transcribe" =>
       /\ (Classifies(r) /\ IsNewIdeaResult(req'[r])) => req'[r].pc = "noi_select"
       /\ (IsNewIdeaResult(req[r]) /\ req'[r].pc # req[r].pc) =>
            /\ projects \subseteq projects'
            /\ \A p \in projects' \ projects :
                 p.isNewIdeas /\ p.userId = req[r].user
            /\ req'[r].pc = "t_persist" =>
                 \E p \in NewIdeasOf(projects', req[r].user) : p.id = req'[r].target
            /\ (Persists(r) /\ Exists(req[r].vid)) =>
                 \E p \in NewIdeasOf(projects, req[r].user) :
                   videos'[req[r].vid].projectId = p.id]_vars

\* a video that sits in the project "pho" is about to be moved to the
\* new-ideas project by a classification that says new idea and also
\* suggests the name "pho"
C13_Witness ==
  \E r \in Slots :
    /\ IsNewIdeaResult(req[r]) /\ req[r].pc = "t_persist"
    /\ Val(req[r].result).suggestedProjectName = Some(PhoName)
    /\ Exists(req[r].vid)
    /\ \E p \in projects : p.id = videos[req[r].vid].projectId /\ ~p.isNewIdeas
    /\ \E p \in NewIdeasOf(projects, req[r].user) : p.id = req[r].target

\* ---- C14: when the classification is not a new idea and suggests a name,
\* the request looks up the user's project with exactly that name; if there
\* is one it is the target and no project is created; if there is none,
\* exactly one project is inserted, owned by the user, with that name, the
\* default color and no isNewIdeas flag, and it is the target; the final
\* update puts the video in the target.
C14_NamedProject ==
  [][\A r \in Slots : req[r].op = "transcribe" =>
       /\ (Classifies(r) /\ IsNamedResult(req'[r])) =>
            req'[r].pc = "t_getByName" /\ req'[r].name = SuggestedName(req'[r])
       /\ (IsNamedResult(req[r]) /\ req'[r].pc \notin {req[r].pc, "t_catch"}) =>
            LET mine == {p \in projects : /\ p.userId = req[r].user
                                          /\ p.name = SuggestedName(req[r])}
            IN /\ req[r].pc = "t_getByName" =>
                    /\ projects' = projects
                    /\ IF mine # {}
                       THEN /\ req'[r].pc = "t_persist"
                            /\ \E p \in mine : req'[r].target = p.id
                       ELSE /\ req'[r].pc = "cp_insert"
                            /\ req'[r].name = SuggestedName(req[r])
               /\ req[r].pc = "cp_insert" =>
                    /\ projects \subseteq projects'
                    /\ Cardinality(projects' \ projects) = 1
                    /\ \A p \in projects' \ projects :
                         /\ p.userId = req[r].user
                         /\ p.name = SuggestedName(req[r])
                         /\ p.color = DefaultColor
                         /\ ~p.isNewIdeas
               /\ req[r].pc = "cp_reselect" =>
                    /\ projects' = projects
                    /\ req'[r].pc = "t_persist"
                    /\ \E p \in mine : req'[r].target = p.id
               /\ req[r].pc \notin {"t_getByName", "cp_insert", "cp_reselect"} =>
                    projects' = projects
               /\ (Persists(r) /\ Exists(req[r].vid)) =>
                    \E p \in mine : videos'[req[r].vid].projectId = p.id]_vars

\* the request created the project "pho" and has put the video in it
C14_Witness ==
  \E r \in Slots :
    /\ IsNamedResult(req[r]) /\ req[r].pc = "t_readback"
    /\ SuggestedName(req[r]) = PhoName
    /\ Exists(req[r].vid) /\ videos[req[r].vid].status = "transcribed"
    /\ \E p \in projects :
         /\ p.id = videos[req[r].vid].projectId /\ p.id = 2
         /\ p.name = PhoName /\ p.color = DefaultColor /\ ~p.isNewIdeas
         /\ p.userId = req[r].user

Generating(r) == req[r].op = "generate"
DocumentsOf(ds, projectId) == {d \in ds : d.projectId = projectId}
\* the row with the id of d, after the step
After(d) == {e \in documents' : e.id = d.id}

\* ---- C16: a synthesis request that finds no video of the project with
\* status transcribed and a non-empty transcript ends with BAD_REQUEST and
\* the no-content message, has made no call to the generator, and leaves the
\* documents table as it is.
C16_NoContent ==
  [][\A r \in Slots : Generating(r) =>
       /\ req[r].pc \in {"g_project", "g_videos"} => req[r].genCalls = 0
       /\ (Leaves(r, "g_videos")
           /\ transcribedVideos(req[r].pid, req[r].user) = {}) =>
            /\ req'[r].pc = "done"
            /\ req'[r].outcome = "BAD_REQUEST"
            /\ req'[r].msg = MsgNoContent
            /\ req'[r].genCalls = 0
            /\ documents' = documents
            /\ nextDocumentId' = nextDocumentId]_vars

\* the only video of the new-ideas project is transcribed with an empty
\* transcript, and the synthesis for that project has been refused
C16_Witness ==
  \E r \in Slots :
    /\ Generating(r) /\ req[r].pc = "done" /\ req[r].outcome = "BAD_REQUEST"
    /\ req[r].pid = 1 /\ req[r].genCalls = 0
    /\ \E v \in DOMAIN videos :
         /\ videos[v].projectId = 1 /\ videos[v].status = "transcribed"
         /\ videos[v].transcription = Some(EmptyText)

\* ---- C17: with requests executed one after the other, a synthesis inserts
\* a document only for a project that has none, and with version 1; a
\* synthesis for a project that has a document adds exactly 1 to the version
\* of that row; no other step changes the version of a row.
C17_VersionCounts ==
  [][/\ \A r \in Slots : Generating(r) =>
          /\ Leaves(r, "cd_insert") =>
               /\ DocumentsOf(documents, req[r].pid) = {}
               /\ Cardinality(documents' \ documents) = 1
               /\ \A d \in documents' \ documents :
                    d.projectId = req[r].pid /\ d.version = 1
          /\ Leaves(r, "g_update") =>
               /\ Cardinality(DocumentsOf(documents, req[r].pid)) = 1
               /\ \A d \in DocumentsOf(documents, req[r].pid) :
                    \E e \in After(d) : e.version = d.version + 1
     /\ \A d \in documents : \A e \in After(d) :
          \/ e.version = d.version
          \/ \E r \in Slots : /\ Generating(r) /\ Leaves(r, "g_update")
                              /\ d.projectId = req[r].pid]_vars

\* the third synthesis for the project "pho" has returned its document,
\* which is at version 3
C17_Witness ==
  \E r \in Slots :
    /\ Generating(r) /\ req[r].pc = "done" /\ req[r].outcome = "ok"
    /\ started = 3
    /\ ~IsNone(req[r].resp) /\ Val(req[r].resp).version = 3
    /\ DocumentsOf(documents, 2) = {Val(req[r].resp)}

\* ---- C18: the transcripts a synthesis request keeps are those of the
\* project's videos that are transcribed with a non-empty transcript at the
\* moment it reads them; the generator is called with exactly that list and
\* its length; the row the request updates or inserts gets that length as
\* videosIncorporated.
C18_FullRecomputation ==
  [][\A r \in Slots : Generating(r) =>
       /\ (Leaves(r, "g_videos") /\ req'[r].pc # "done") =>
            /\ req'[r].read = transcriptions(req[r].pid, req[r].user)
            /\ Len(req'[r].read) =
                 Cardinality(transcribedVideos(req[r].pid, req[r].user))
       /\ (req[r].pc \in {"g_existing", "g_content", "g_summary"}
           /\ req'[r].pc # "done") => req'[r].read = req[r].read
       /\ (Leaves(r, "g_content") /\ req'[r].pc = "g_summary") =>
            /\ Val(req'[r].genInput).newTranscriptions = req[r].read
            /\ Val(req'[r].genInput).videosCount = Len(req[r].read)
       /\ Leaves(r, "g_update") =>
            \A d \in documents :
              (d.id = Val(req[r].existing).id /\ d.userId = req[r].user) =>
                \A e \in After(d) : e.videosIncorporated = Len(req[r].read)
       /\ Leaves(r, "cd_insert") =>
            \A d \in documents' \ documents :
              d.videosIncorporated = Len(req[r].read)]_vars

\* the second synthesis for "pho" was called with the document of the first
\* and again with the transcript of the project's one video, and has written
\* version 2 with videosIncorporated 1
C18_Witness ==
  \E r \in Slots :
    /\ Generating(r) /\ req[r].pc = "ud_readback" /\ req[r].pid = 2
    /\ ~IsNone(Val(req[r].genInput).existingContent)
    /\ Val(req[r].genInput).newTranscriptions = <<TPho>>
    /\ Val(req[r].existing).videosIncorporated = 1
    /\ \E d \in documents :
         /\ d.projectId = 2 /\ d.version = 2 /\ d.videosIncorporated = 1
         /\ Cardinality(transcribedVideos(2, req[r].user)) = 1

\* ---- C19: in every reachable state a project has at most one document
\* row.
C19_OneDocumentPerProject ==
  \A d, e \in documents : d.projectId = e.projectId => d.id = e.id

\* ---- C20: the UPDATE of documents.update adds exactly 1 to the version of
\* the document it edits.
C20_UpdateIncrementsVersion ==
  [][\A r \in Slots : (req[r].op = "updateDocument" /\ Leaves(r, "du_update")) =>
       \A d \in documents :
         (d.id = req[r].did /\ d.userId = req[r].user) =>
           \E e \in After(d) : e.version = d.version + 1]_vars


\* ---- C21: a synthesis request leaves the summary call either with a
\* failure, and then it ends with an error and the documents table is as it
\* was, or with a summary; a request writes to the documents table only
\* after both calls have answered.
C21_BothCallsOrNothing ==
  [][\A r \in Slots : Generating(r) =>
       /\ Leaves(r, "g_summary") =>
            /\ documents' = documents /\ nextDocumentId' = nextDocumentId
            /\ req'[r].genCalls = 2
            /\ \/ /\ req'[r].pc = "done" /\ req'[r].outcome = "ERROR"
                  /\ IsNone(req'[r].resp)
               \/ /\ req'[r].pc \in {"g_update", "cd_insert"}
                  /\ ~IsNone(req'[r].generated)
                  /\ Val(req'[r].generated).content = req[r].content
       /\ (req[r].pc \in {"g_project", "g_videos", "g_existing", "g_content",
                          "g_summary"} /\ req'[r].pc # req[r].pc) =>
            documents' = documents
       /\ req[r].pc \in {"g_update", "cd_insert"} =>
            req[r].genCalls = 2 /\ ~IsNone(req[r].generated)]_vars

\* the content call of a second synthesis succeeded and its summary call
\* failed: the request has ended with an error and the document of the
\* first synthesis is still at version 1
C21_Witness ==
  \E r \in Slots :
    /\ Generating(r) /\ req[r].pc = "done" /\ req[r].outcome = "ERROR"
    /\ req[r].genCalls = 2
    /\ \E d \in DocumentsOf(documents, req[r].pid) :
         d.version = 1 /\ d.userId = req[r].user


\* ---- C22: the generator is called in update mode exactly when the project
\* has a document, and every synthesis that writes version + 1 to an
\* existing document was called in update mode.
C22_UpdateModeIffDocumentExists ==
  [][\A r \in Slots : Generating(r) =>
       /\ (Leaves(r, "g_content") /\ req'[r].pc = "g_summary") =>
            (isUpdate(Val(req'[r].genInput))
               <=> getDocumentByProjectId(req[r].pid, req[r].user) # {})
       /\ Leaves(r, "g_update") => isUpdate(Val(req[r].genInput))]_vars


\* ---- C23: a transcription request leaves the keyword analysis into the
\* catch block only when the analysis call itself failed; whatever text the
\* call answers, the request goes on with a classification, which is the
\* one parsed from the answer or the one of the keyword extractor.
C23_UnparseableFallsBack ==
  [][\A r \in Slots : (req[r].op = "transcribe" /\ Leaves(r, "t_analysis")) =>
       IF req'[r].pc = "t_catch"
       THEN req'[r].msg = MsgAnalysis
       ELSE /\ Classified(req'[r])
            /\ \/ Val(req'[r].result) = fallbackResult(req[r].text)
               \/ \E a \in ParsedAnswers :
                    Val(req'[r].result) = parsedResult(req[r].text, a)]_vars

\* ---- C24: the classification a request holds never has isNewIdea true
\* together with a suggestedProjectName that is not null.
C24_NewIdeaHasNoName ==
  \A r \in Slots :
    Classified(req[r]) =>
      ~(Val(req[r].result).isNewIdea
        /\ ~IsNone(Val(req[r].result).suggestedProjectName))


\* the cues as the claims name them: "nouvelle idée", "nouvel idée" and
\* "new idea", with any white space or none between the two words, and e or
\* é in "idée"
CueGaps == {<< >>, <<" ">>, <<" ", "\t">>, <<"\t">>, <<" ", " ">>}
Cues ==
  {s \o g \o i : s \in {<<"n","o","u","v","e","l","l","e">>, <<"n","o","u","v","e","l">>},
                 g \in CueGaps,
                 i \in {<<"i","d","é","e">>, <<"i","d","e","e">>}}
    \cup {<<"n","e","w">> \o g \o <<"i","d","e","a">> : g \in CueGaps}
BeginsWithCue(t) == \E c \in Cues : startsWith(lower(trim(t)), c)
Extracted(r) == req[r].op = "extract" /\ req[r].pc = "done"

\* ---- C25: for a transcript whose trimmed, lower-cased text begins with a
\* cue, the extractor returns isNewIdea true and the keyword "nouvelle idée".
C25_CueIsNewIdea ==
  \A r \in Slots :
    (Extracted(r) /\ BeginsWithCue(req[r].text)) =>
      Val(req[r].resp) = [keyword |-> NewIdeaKeyword, isNewIdea |-> TRUE]

\* "Nouvel idee x" after leading white space: the unaccented cue with text
\* after it has been recognised
C25_Witness ==
  \E r \in Slots :
    /\ Extracted(r)
    /\ req[r].text = <<"\n", " ">> \o <<"n","o","u","v","e","l">> \o <<" ">>
                       \o <<"i","d","e","e">> \o <<" ", "x">>
    /\ Val(req[r].resp) = [keyword |-> NewIdeaKeyword, isNewIdea |-> TRUE]

\* the words of a text with no white space at its ends, and the first n of
\* a sequence
RECURSIVE wordsOf(_)
wordsOf(s) ==
  IF s = << >> THEN << >>
  ELSE IF Head(s) \in Whitespace THEN wordsOf(Tail(s))
  ELSE LET n == CHOOSE k \in 1..Len(s) :
                  /\ \A j \in 1..k : s[j] \notin Whitespace
                  /\ k = Len(s) \/ s[k + 1] \in Whitespace
       IN <<SubSeq(s, 1, n)>> \o wordsOf(SubSeq(s, n + 1, Len(s)))
firstN(ws, n) == SubSeq(ws, 1, IF Len(ws) < n THEN Len(ws) ELSE n)
RECURSIVE spaced(_)
spaced(ws) ==
  IF ws = << >> THEN << >>
  ELSE ws[1] \o (IF Len(ws) = 1 THEN << >> ELSE <<" ">> \o spaced(Tail(ws)))
\* the text before the first punctuation mark
clause(s) ==
  LET marks == {i \in 1..Len(s) : s[i] \in Punctuation}
  IN IF marks = {} THEN s
     ELSE SubSeq(s, 1, (CHOOSE i \in marks : \A j \in marks : i <= j) - 1)

\* ---- C26: for a transcript that does not begin with a cue, the extractor
\* returns isNewIdea false and, as keyword, the first three words at most of
\* the lower-cased text before the first punctuation mark, joined by single
\* spaces (the empty keyword when there is no word).
C26_NoCueGivesFirstWords ==
  \A r \in Slots :
    (Extracted(r) /\ ~BeginsWithCue(req[r].text)) =>
      Val(req[r].resp) =
        [keyword |-> spaced(firstN(wordsOf(clause(lower(trim(req[r].text)))), 3)),
         isNewIdea |-> FALSE]


\* ---- C28: a step of a request made as user A leaves every project, video
\* and document of another user as it is, and a row returned to A is a row
\* of A.
C28_OwnerScoped ==
  [][\A r \in Slots : req'[r] # req[r] =>
       /\ \A p \in projects : p.userId # req'[r].user => p \in projects'
       /\ \A v \in DOMAIN videos :
            videos[v].userId # req'[r].user =>
              v \in DOMAIN videos' /\ videos'[v] = videos[v]
       /\ \A d \in documents : d.userId # req'[r].user => d \in documents'
       /\ (req'[r].pc = "done" /\ ~IsNone(req'[r].resp)) =>
            Val(req'[r].resp).userId = req'[r].user]_vars


\* ---- C29: a request leaves a call to the text generator, to the prompt
\* generator or to the image generator either with what the call answered
\* or by failing: a value made up in place of a failed call is never passed
\* on.
C29_NoFallbackValue ==
  [][\A r \in Slots :
       /\ (Generating(r) /\ Leaves(r, "g_content")) =>
            \/ req'[r].pc = "done" /\ req'[r].outcome = "ERROR"
            \/ req'[r].pc = "g_summary" /\ req'[r].content \in GenContents
       /\ (Generating(r) /\ Leaves(r, "g_summary")) =>
            \/ req'[r].pc = "done" /\ req'[r].outcome = "ERROR"
            \/ Val(req'[r].generated).summary \in Summaries
       /\ (req[r].op = "generateThumbnail" /\ Leaves(r, "th_prompt")) =>
            \/ req'[r].pc = "done" /\ req'[r].outcome = "ERROR"
            \/ /\ req'[r].pc = "th_image"
               /\ req'[r].text \in PromptTexts \cup {NonTextPrompt(req[r].name)}
       /\ (req[r].op = "generateThumbnail" /\ Leaves(r, "th_image")) =>
            \/ req'[r].pc = "done" /\ req'[r].outcome = "ERROR"
            \/ req'[r].pc = "th_update" /\ req'[r].url \in ImageUrls]_vars


\* ---- C27: each read of a dashboard request returns exactly the caller's
\* rows of its table, and the answer counts them: totalProjects the projects
\* that are not the New Ideas category, totalVideos every video,
\* totalDocuments every document, transcribedVideos the videos whose status
\* is transcribed, pendingVideos those whose status is uploaded or
\* transcribing; so transcribedVideos + pendingVideos <= totalVideos.
WithStatus(rows, status) == {v \in DOMAIN rows : rows[v].status = status}

C27_DashboardCounts ==
  [][\A r \in Slots :
       /\ (Leaves(r, "s_projects") /\ req'[r].pc = "s_videos") =>
            req'[r].projectRows = {p \in projects : p.userId = req[r].user}
       /\ (Leaves(r, "s_videos") /\ req'[r].pc = "s_documents") =>
            /\ DOMAIN req'[r].videoRows =
                 {v \in DOMAIN videos : videos[v].userId = req[r].user}
            /\ \A v \in DOMAIN req'[r].videoRows : req'[r].videoRows[v] = videos[v]
       /\ (Leaves(r, "s_documents") /\ req'[r].outcome = "ok") =>
            LET a == Val(req'[r].resp)
                rows == req[r].videoRows
            IN /\ a.totalProjects =
                    Cardinality(req[r].projectRows)
                    - Cardinality({p \in req[r].projectRows : p.isNewIdeas})
               /\ a.totalVideos = Cardinality(DOMAIN rows)
               /\ a.totalDocuments =
                    Cardinality({d \in documents : d.userId = req[r].user})
               /\ a.transcribedVideos = Cardinality(WithStatus(rows, "transcribed"))
               /\ a.pendingVideos = Cardinality(WithStatus(rows, "uploaded"))
                                    + Cardinality(WithStatus(rows, "transcribing"))
               /\ a.transcribedVideos + a.pendingVideos <= a.totalVideos]_vars

\* a dashboard answered while a transcription was under way: the video being
\* transcribed is pending, the other is transcribed, and the New Ideas
\* category is not among the projects counted
C27_Witness ==
  \E r \in Slots :
    /\ req[r].op = "dashboard" /\ req[r].outcome = "ok"
    /\ LET a == Val(req[r].resp)
       IN /\ a.totalProjects = 1 /\ Cardinality(a.recentProjects) = 2
          /\ a.totalVideos = 2 /\ a.transcribedVideos = 1 /\ a.pendingVideos = 1
          /\ \E v \in DOMAIN a.recentVideos : a.recentVideos[v].status = "transcribing"


\* ---- C30: two transcription requests of one user on different videos
\* leave the tables as one of the two sequential orders does; in particular,
\* once both have returned, the user has no two projects of the same name
\* (the later request of a sequential order finds the project the earlier
\* one created).
C30_DifferentVideosSerial ==
  \A r, q \in Slots :
    ( /\ r # q
      /\ req[r].op = "transcribe" /\ req[r].pc = "done"
      /\ req[q].op = "transcribe" /\ req[q].pc = "done"
      /\ req[r].user = req[q].user /\ req[r].vid # req[q].vid ) =>
    \A a, b \in projects :
      (a.userId = req[r].user /\ b.userId = req[r].user /\ a.name = b.name)
        => a.id = b.id


\* ---- C31: getOrCreateNewIdeasProject reads, then writes, with no guard: a
\* request that finds no New Ideas category of its user goes on to insert one
\* whatever the other requests are doing, and its INSERT adds a category row
\* although another one of the same user may exist by then; so two
\* overlapping first accesses of one user can leave two categories.
C31_UnguardedGetOrCreate ==
  [][\A r \in Slots :
       /\ (Leaves(r, "noi_select") /\ NewIdeasOf(projects, req[r].user) = {}) =>
            \/ req'[r].pc = "cp_insert" /\ req'[r].flag /\ req'[r].name = NewIdeasName
            \/ req'[r].pc = "done" /\ req'[r].outcome = "ERROR" /\ req'[r].msg = MsgDb
       /\ (Leaves(r, "cp_insert") /\ req[r].flag /\ req'[r].pc = "cp_reselect") =>
            /\ Cardinality(NewIdeasOf(projects', req[r].user))
                 = Cardinality(NewIdeasOf(projects, req[r].user)) + 1
            /\ \A p \in projects : p \in projects']_vars

\* two overlapping uploads of one user have both found no category and both
\* inserted one: the user has two, and each video is in a different one
C31_Witness ==
  \E u \in Users :
    /\ Cardinality(NewIdeasOf(projects, u)) = 2
    /\ \A r \in Slots : req[r].op = "upload" /\ req[r].user = u /\ req[r].outcome = "ok"
    /\ \E v, w \in DOMAIN videos : videos[v].projectId # videos[w].projectId


\* ---- C32: the update of a synthesis is not conditional on the version it
\* read: it stores the version it read plus one and its own content over
\* whatever the row holds by then.  Two overlapping syntheses that both read
\* version v therefore both write v + 1: the stored version is v + 1 after
\* both, with the content of the later write.
C32_StaleVersionWrite ==
  [][\A r \in Slots :
       (Generating(r) /\ Leaves(r, "g_update")) =>
         \A d \in documents' :
           (d.id = Val(req[r].existing).id /\ d.userId = req[r].user) =>
             /\ d.version = Val(req[r].existing).version + 1
             /\ d.content = Val(req[r].generated).content
             /\ d.versionNotes = Val(req[r].generated).summary]_vars

\* two syntheses of "pho" that overlapped have both succeeded: each was
\* answered with version 2, the row holds version 2, and the content one of
\* them was answered with is no longer stored
C32_Witness ==
  /\ \A r \in Slots :
       /\ req[r].op = "generate" /\ req[r].outcome = "ok" /\ req[r].pid = 2
       /\ Val(req[r].resp).version = 2
  /\ Val(req[1].resp).content # Val(req[2].resp).content
  /\ \A d \in documents : d.projectId = 2 => d.version = 2

\* ---- C38: the version of a document row is at least 1 and no step lowers
\* it, whatever syntheses and manual updates of the document overlap.
C38_VersionNeverDecreases ==
  [][\A d \in documents, e \in documents' :
       d.id = e.id => (e.version >= 1 /\ e.version >= d.version)]_vars


\* ---- C34: getOrCreateNewIdeasProject returns a project of the caller whose
\* isNewIdeas flag is set, also when the caller owns an ordinary project
\* named "Nouvelles idées": what the re-select of createProject hands back to
\* an upload, a getNewIdeas or a new-idea transcription is such a project, and
\* an upload puts the new video into such a project.
C34_ReturnsTheCategory ==
  [][\A r \in Slots :
       /\ (Leaves(r, "cp_reselect") /\ req[r].flag) =>
            /\ req'[r].pc \in {"u_createVideo", "t_persist"} =>
                 \E p \in projects : /\ p.id = req'[r].target
                                     /\ p.userId = req[r].user /\ p.isNewIdeas
            /\ (req[r].op = "getNewIdeas" /\ req'[r].outcome = "ok") =>
                 /\ ~IsNone(req'[r].resp)
                 /\ Val(req'[r].resp).userId = req[r].user
                 /\ Val(req'[r].resp).isNewIdeas
       /\ (Leaves(r, "u_createVideo") /\ req'[r].outcome = "ok") =>
            \E p \in projects :
              /\ p.id = videos'[req'[r].vid].projectId
              /\ p.userId = req[r].user /\ p.isNewIdeas]_vars

\* ---- C35: every video and every document points at an existing project of
\* its own user; in particular a deleted project leaves no video and no
\* document behind that points at it.
C35_ProjectsOfRowsExist ==
  /\ \A v \in DOMAIN videos :
       \E p \in projects : p.id = videos[v].projectId /\ p.userId = videos[v].userId
  /\ \A d \in documents :
       \E p \in projects : p.id = d.projectId /\ p.userId = d.userId

\* ---- C36: a transcription whose classification is neither a new idea nor
\* a project name leaves the video in the project it is in when the final
\* update runs, so a reassignment that completed while the request was in
\* flight stays in effect.
C36_ReassignmentKept ==
  [][\A r \in Slots :
       (req[r].op = "transcribe" /\ IsUnnamedResult(req[r]) /\ Persists(r)
          /\ Exists(req[r].vid)) =>
         videos'[req[r].vid].projectId = videos[req[r].vid].projectId]_vars

\* ---- C37: a video has an error message only while its status is error.
C37_MessageOnlyInError ==
  \A v \in DOMAIN videos :
    ~IsNone(videos[v].errorMessage) => videos[v].status = "error"


\* ---- C33: when every collaborator and storage call returns or throws, a
\* transcription request that found its video completes, and a video for
\* which no transcription request is in flight does not have the status
\* transcribing.
FoundItsVideo(r) == req[r].op = "transcribe" /\ req[r].pc = "t_setTranscribing"
TranscriptionInFlight(v) ==
  \E r \in Slots : req[r].op = "transcribe" /\ req[r].vid = v /\ InFlight(r)
NotLeftTranscribing ==
  \A v \in DOMAIN videos :
    ~TranscriptionInFlight(v) => videos[v].status # "transcribing"
C33_TranscribingIsTransient ==
  /\ \A r \in Slots : FoundItsVideo(r) ~> (req[r].pc = "done")
  /\ []NotLeftTranscribing


\* ---- C39: while the recorder is recording, the timer tick that observes
\* an elapsed time of maxDuration or more stops the MediaRecorder, sets
\* isRecording to false and clears the timer.
TickObservesMax ==
  /\ recorder.mounted /\ recorder'.mounted
  /\ recorder.isRecording /\ recorder.mediaRecorder = "recording"
  /\ recorder'.now > recorder.now
  /\ recorder'.now - recorder.startTime >= maxDuration
C39_StopsAtMaxDuration ==
  [][TickObservesMax =>
       /\ recorder'.mediaRecorder = "inactive"
       /\ ~recorder'.isRecording
       /\ IsNone(recorder'.timer)]_vars

=============================================================================
